---- MODULE Spec2Model ----
(***************************************************************************)
(* State-machine model of sat-img-utils:                                   *)
(*   - pipelines/patches.py  cut_patches        (specification Spec)       *)
(*   - core/transforms.py    pad_to_square      (specification SpecPad)    *)
(*   - geo/raster.py         read_raster_window_chunked (SpecRead)         *)
(* An array is a record [ndim, a]: a is a sequence of planes, a plane a     *)
(* sequence of rows; ndim = 3 is a (C,h,w) array, ndim = 2 an (h,w) array   *)
(* held as its single plane, ndim = 1 a (w) array held as a single row.     *)
(* Python None of an Optional[int] is the empty sequence, Some(n) is <<n>>. *)
(***************************************************************************)
EXTENDS Integers, Sequences, FiniteSets, TLC

\* ---------------------------------------------------------------- bounds
MaxDim == 2
MaxPatch == 2
MaxStep == 2
MaxGc == 2
MaxPre == 2
MaxPost == 1
DsCount == 2
MaxPadDim == 2
MaxPadSize == 3
MaxPadBands == 2
MaxWinW == 2
MaxWinH == 4
MaxChunk == 3
MaxOff == 1
MaxCells == 2
MaxMaskOff == 2
MaxSarCells == 3

\* ------------------------------------------------------ program constants
MAX_WINDOW_SIZE_B == 1073741824
CHUNK_HEIGHT == 10000
DTYPE_BYTES == 2

\* ------------------------------------------------------------- variables
VARIABLES
    pc,                        \* position inside cut_patches
    ds,                        \* the raster handle: height, width, count
    cfg,                       \* PatchIterPipelineConfig
    transform,                 \* "None" or "fn"
    filters_before_transform,  \* sequence of filter ids
    filters_after_transform,   \* sequence of filter ids
    metadata_fn,               \* "None" or "fn"
    writer_fn,                 \* "None" or "fn"
    step, i, j, kept, metadata,\* locals of cut_patches
    k,                         \* index of the filter about to be called
    patch, context,            \* locals of the loop body
    returned,                  \* value returned by cut_patches (<<list>> or <<>>)
    visited,                   \* windows built so far, in order
    reads,                     \* raster I/O calls made so far
    read_data,                 \* array returned by the latest raster read
    calls,                     \* callbacks invoked for the current window
    written,                   \* writer_fn invocations so far
    gc_at,                     \* values of kept at which gc.collect() ran
    \* pad_to_square(patch, patch_size, pad_value)
    pad_pc, pad_patch, pad_size, pad_val, pad_result,
    \* read_raster_window_chunked(raster, window, band, max_size_gb, chunk_height)
    rr_pc, rr_raster, rr_window, rr_band, rr_max_size, rr_chunk_height,
    rr_row_start, rr_chunks, rr_result, rr_reads,
    \* Context(cfg, extra) and the lookups made on it
    ctx_pc, ctx_cfg, ctx_extra, ctx_obj, ctx_req, ctx_res,
    \* one call of a fraction function of core/filters.py or core/masks.py
    fr_pc, fr_args, fr_res,
    \* one call of a SAR normalization of core/transforms.py
    sar_pc, sar_args, sar_clip, sar_out,
    \* concurrent gen_capella_tile_patches runs and the module-level
    \* CAPELLA_EXTRA_CTX they use
    cap_pc, cap_in, cap_pair, cap_extra_ctx, cap_heap,
    \* detect_buildings and detect_buildings_chunked of datasets/ghsl.py on
    \* one pair of rasters
    gh_pc, gh_in, gh_wins, gh_total, gh_hits, gh_res, gh_ref,
    \* process_sar of scripts/generate_capella_patches.py over a directory
    bp_pc, bp_in, bp_idx, bp_total, bp_log, bp_files, bp_merged,
    \* cut_patches with save_capella_patch as its writer and the files of
    \* the output directory
    sv_pc, sv_ds, sv_cfg, sv_i, sv_j, sv_kept, sv_metadata, sv_context,
    sv_writes, sv_files, sv_returned

cutVars == <<pc, ds, cfg, transform, filters_before_transform,
             filters_after_transform, metadata_fn, writer_fn, step, i, j,
             kept, metadata, k, patch, context, returned, visited, reads,
             read_data, calls, written, gc_at>>

padVars == <<pad_pc, pad_patch, pad_size, pad_val, pad_result>>

rrVars == <<rr_pc, rr_raster, rr_window, rr_band, rr_max_size, rr_chunk_height,
            rr_row_start, rr_chunks, rr_result, rr_reads>>

ctxVars == <<ctx_pc, ctx_cfg, ctx_extra, ctx_obj, ctx_req, ctx_res>>

frVars == <<fr_pc, fr_args, fr_res>>

sarVars == <<sar_pc, sar_args, sar_clip, sar_out>>

capVars == <<cap_pc, cap_in, cap_pair, cap_extra_ctx, cap_heap>>

ghVars == <<gh_pc, gh_in, gh_wins, gh_total, gh_hits, gh_res, gh_ref>>

bpVars == <<bp_pc, bp_in, bp_idx, bp_total, bp_log, bp_files, bp_merged>>

svVars == <<sv_pc, sv_ds, sv_cfg, sv_i, sv_j, sv_kept, sv_metadata, sv_context,
            sv_writes, sv_files, sv_returned>>

vars == <<cutVars, padVars, rrVars, ctxVars, frVars, sarVars, capVars, ghVars, bpVars, svVars>>

\* ------------------------------------------------------ values and helpers
None == <<>>
Some(n) == <<n>>

Max(a, b) == IF a >= b THEN a ELSE b
\* patches.py 61: the window size without the clip to the raster edge
MinTakesFirst(a, b) == a
Min(a, b) == IF a <= b THEN a ELSE b

NoArray == [ndim |-> 0, a |-> <<>>]

Window(col_off, row_off, width, height) ==
    [col_off |-> col_off, row_off |-> row_off, width |-> width, height |-> height]

\* Sample stored at band b (1-based), row r, column c (0-based) of raster d.
\* Every sample of a raster is distinct and positive.
Pixel(d, b, r, c) == (b - 1) * d.height * d.width + r * d.width + c + 1

\* rasterio: the (height, width) block of one band addressed by a window.
ReadBand(d, b, w) ==
    [r \in 1..w.height |->
        [c \in 1..w.width |-> Pixel(d, b, w.row_off + r - 1, w.col_off + c - 1)]]

\* ds.read(window=w) / ds.read(bands, window=w)
BandsNone == [kind |-> "none", idx |-> <<>>]
BandsInt(b) == [kind |-> "int", idx |-> <<b>>]
BandsList(s) == [kind |-> "list", idx |-> s]

DsReadAllBands(d, bands, w) ==
    [ndim |-> 3, a |-> [b \in 1..d.count |-> ReadBand(d, b, w)]]
DsRead(d, bands, w) ==
    IF bands.kind = "int"
    THEN [ndim |-> 2, a |-> <<ReadBand(d, bands.idx[1], w)>>]
    ELSE IF bands.kind = "list"
    THEN [ndim |-> 3, a |-> [n \in 1..Len(bands.idx) |-> ReadBand(d, bands.idx[n], w)]]
    ELSE [ndim |-> 3, a |-> [b \in 1..d.count |-> ReadBand(d, b, w)]]

\* np.pad(rows, ((top, bottom), (left, right)), mode="constant", constant_values=v)
NpPad2D(rows, top, bottom, left, right, v) ==
    LET h == Len(rows)
        w == IF h = 0 THEN 0 ELSE Len(rows[1])
    IN [r \in 1..(top + h + bottom) |->
          [c \in 1..(left + w + right) |->
              IF r > top /\ r <= top + h /\ c > left /\ c <= left + w
              THEN rows[r - top][c - left]
              ELSE v]]

\* h, w = patch.shape / _, h, w = patch.shape
ShapeH(p) == Len(p.a[1])
ShapeW(p) == Len(p.a[1][1])

\* core/transforms.py pad_to_square, for ndim in {2, 3}
pad_to_square_PadsBefore(p, patch_size, pad_value) ==
    LET h == ShapeH(p)
        w == ShapeW(p)
        pad_h == Max(0, patch_size - h)
        pad_w == Max(0, patch_size - w)
    IN IF pad_h = 0 /\ pad_w = 0 THEN p
       ELSE IF p.ndim = 2
       THEN [ndim |-> 2, a |-> <<NpPad2D(p.a[1], pad_h, 0, pad_w, 0, pad_value)>>]
       ELSE [ndim |-> 3,
             a |-> [c \in 1..Len(p.a) |-> NpPad2D(p.a[c], pad_h, 0, pad_w, 0, pad_value)]]
pad_to_square(p, patch_size, pad_value) ==
    LET h == ShapeH(p)
        w == ShapeW(p)
        pad_h == Max(0, patch_size - h)
        pad_w == Max(0, patch_size - w)
    IN IF pad_h = 0 /\ pad_w = 0 THEN p
       ELSE IF p.ndim = 2
       THEN [ndim |-> 2, a |-> <<NpPad2D(p.a[1], 0, pad_h, 0, pad_w, pad_value)>>]
       ELSE [ndim |-> 3,
             a |-> [c \in 1..Len(p.a) |-> NpPad2D(p.a[c], 0, pad_h, 0, pad_w, pad_value)]]

\* The caller's transform, when it returns an array: a new array of the same
\* shape whose cells differ from the input's (here: negated).
MapCells(rows) == [r \in 1..Len(rows) |-> [c \in 1..Len(rows[r]) |-> 0 - rows[r][c]]]
ApplyTransform(p) == [ndim |-> p.ndim, a |-> [c \in 1..Len(p.a) |-> MapCells(p.a[c])]]

\* f"{img_name}_patch_{i}_{j}.npy"
PatchName(img_name, wi, wj) == <<img_name, "_patch_", wi, "_", wj, ".npy">>

\* geo/raster.py window_center_longlat with the identity geotransform and no
\* CRS change, in half-pixel units (the source adds height/2.0 and width/2.0).
window_center_longlat(w) == <<2 * w.col_off + w.width + 1, 2 * w.row_off + w.height + 1>>

NoContext == [cfg |-> <<>>, extra |-> <<>>]

\* patches.py 77-92: the per-window Context
MakeContext(c, w, wi, wj) ==
    [cfg |-> c,
     extra |-> [patch |-> [patch_name |-> PatchName(c.img_name, wi, wj),
                           i |-> wi, j |-> wj,
                           height |-> c.patch_size, width |-> c.patch_size,
                           window |-> w,
                           long_center |-> window_center_longlat(w)[1],
                           lat_center |-> window_center_longlat(w)[2],
                           crs |-> c.crs]]]

\* geo/metadata.py default_metadata_fn
default_metadata_fn(ctx) ==
    [img_name |-> ctx.cfg.img_name,
     patch_name |-> ctx.extra.patch.patch_name,
     geometry |-> <<ctx.extra.patch.long_center, ctx.extra.patch.lat_center>>,
     crs |-> <<"EPSG:", ctx.cfg.crs>>]

\* --------------------------------------------------------- cut_patches
Configs ==
    [patch_size : 1..MaxPatch,
     step : {None} \cup {Some(n) : n \in 1..MaxStep},
     bands : {BandsNone, BandsInt(1), BandsList(<<DsCount, 1>>)},
     pad_value : {0},
     gc_every : {0, 1, MaxGc},
     img_name : {"img"},
     crs : {None}]

\* Rasters of one or two rows of pixels and up to MaxDim columns.
Rasters == [height : {1, 2}, width : 1..MaxDim, count : {DsCount}]

FilterSeq(n) == [x \in 1..n |-> x]

\* The callables handed to cut_patches: no stage at all (the defaults), a
\* transform alone, one filter on each side without a transform, and the full
\* chain.
Pipelines ==
    {[before |-> FilterSeq(0), transform |-> "None", after |-> FilterSeq(0)],
     [before |-> FilterSeq(0), transform |-> "fn", after |-> FilterSeq(0)],
     [before |-> FilterSeq(1), transform |-> "None", after |-> FilterSeq(1)],
     [before |-> FilterSeq(MaxPre), transform |-> "fn", after |-> FilterSeq(MaxPost)]}

InitCut ==
    /\ pc = "start"
    /\ ds \in Rasters
    /\ cfg \in Configs
    /\ \E p \in Pipelines :
        /\ transform = p.transform
        /\ filters_before_transform = p.before
        /\ filters_after_transform = p.after
    /\ metadata_fn \in {"None", "fn"}
    /\ writer_fn \in {"None", "fn"}
    /\ step = 0 /\ i = 0 /\ j = 0 /\ kept = 0 /\ metadata = <<>>
    /\ k = 0
    /\ patch = NoArray /\ context = NoContext
    /\ returned = <<>>
    /\ visited = <<>> /\ reads = <<>> /\ calls = <<>> /\ written = <<>>
    /\ read_data = NoArray
    /\ gc_at = <<>>

inputVars == <<ds, cfg, transform, filters_before_transform,
               filters_after_transform, metadata_fn, writer_fn>>

\* patches.py 50: step = cfg.step if cfg.step is not None else cfg.patch_size
StepOfIgnoringStep(c) == c.patch_size
StepOf(c) == IF c.step # None THEN c.step[1] ELSE c.patch_size

\* patches.py 48-57
Start ==
    /\ pc = "start"
    /\ step' = StepOf(cfg)
    /\ kept' = 0
    /\ metadata' = <<>>
    /\ i' = 0 /\ j' = 0
    /\ pc' = "loop"
    /\ UNCHANGED <<inputVars, k, patch, context, returned, visited, reads, read_data,
                   calls, written, gc_at>>

\* The stage that follows the pre-transform filters, the transform and the
\* post-transform filters when they are done (patches.py 100-118).
AfterPre == IF transform # "None" THEN "transform"
            ELSE IF Len(filters_after_transform) > 0 THEN "post" ELSE "write"
AfterTransform == IF Len(filters_after_transform) > 0 THEN "post" ELSE "write"
AfterWindowBuilt == IF Len(filters_before_transform) > 0 THEN "pre" ELSE AfterPre

\* patches.py 61-92: build the window, read it, pad it, build the Context
BuildWindow ==
    /\ pc = "loop"
    /\ i < ds.height /\ j < ds.width
    /\ LET window_h == Min(cfg.patch_size, ds.height - i)
           window_w == Min(cfg.patch_size, ds.width - j)
           window == Window(j, i, window_w, window_h)
           raw == DsRead(ds, cfg.bands, window)
       IN /\ visited' = Append(visited, window)
          /\ reads' = Append(reads, [fn |-> "ds.read", bands |-> cfg.bands,
                                     window |-> window])
          /\ read_data' = raw
          /\ patch' = pad_to_square(raw, cfg.patch_size, cfg.pad_value)
          /\ context' = MakeContext(cfg, window, i, j)
    /\ calls' = <<>>
    /\ k' = 1
    /\ pc' = AfterWindowBuilt
    /\ UNCHANGED <<inputVars, step, i, j, kept, metadata, returned, written, gc_at>>

\* `continue` / end of the loop body: the inner range advances (patches.py 60)
NextJStuck == j
NextJ == j + step

\* patches.py 96-101: where the loop goes after pre-transform filter number n
\* returned keep
AfterFilterBeforeNoBreak(keep, n) ==
    IF n < Len(filters_before_transform) THEN "pre"
    ELSE IF keep THEN AfterPre ELSE "loop"
AfterFilterBefore(keep, n) ==
    IF ~keep THEN "loop"
    ELSE IF n < Len(filters_before_transform) THEN "pre" ELSE AfterPre

\* patches.py 110-116: where the loop goes after post-transform filter number n
\* returned keep
AfterFilterAfterNoSkip(keep, n) ==
    IF n < Len(filters_after_transform) THEN "post" ELSE "write"
AfterFilterAfter(keep, n) ==
    IF ~keep THEN "loop"
    ELSE IF n < Len(filters_after_transform) THEN "post" ELSE "write"

\* patches.py 105: patch = transform(patch, context)
PatchAfterTransformKeepsOld(old, result) == old
PatchAfterTransform(old, result) == result

\* patches.py 119: metadata.append(record)
AppendRecordAtFront(md, r) == <<r>> \o md
AppendRecord(md, r) == Append(md, r)

\* patches.py 60: the inner range is exhausted, the outer one advances
NextRow ==
    /\ pc = "loop"
    /\ i < ds.height /\ j >= ds.width
    /\ i' = i + step
    /\ j' = 0
    /\ UNCHANGED <<pc, inputVars, step, kept, metadata, k, patch, context,
                   returned, visited, reads, read_data, calls, written, gc_at>>

\* patches.py 96-101: one pre-transform filter call
FilterBefore ==
    /\ pc = "pre"
    /\ \E keep \in BOOLEAN :
        /\ calls' = Append(calls, [fn |-> "filter_before",
                                   id |-> filters_before_transform[k],
                                   patch |-> patch,
                                   ret |-> IF keep THEN "True" ELSE "False"])
        /\ pc' = AfterFilterBefore(keep, k)
        /\ j' = (IF pc' = "loop" THEN NextJ ELSE j)
        /\ k' = (IF pc' = "pre" THEN k + 1 ELSE 1)
    /\ UNCHANGED <<inputVars, step, i, kept, metadata, patch, context,
                   returned, visited, reads, read_data, written, gc_at>>

\* patches.py 104-107
Transform ==
    /\ pc = "transform"
    /\ \E some \in BOOLEAN :
        /\ calls' = Append(calls, [fn |-> "transform", id |-> 0,
                                   patch |-> patch,
                                   ret |-> IF some THEN "patch" ELSE "None"])
        /\ IF some
           THEN /\ patch' = PatchAfterTransform(patch, ApplyTransform(patch))
                /\ pc' = AfterTransform /\ j' = j
           ELSE /\ patch' = NoArray
                /\ pc' = "loop" /\ j' = NextJ
    /\ k' = 1
    /\ UNCHANGED <<inputVars, step, i, kept, metadata, context, returned,
                   visited, reads, read_data, written, gc_at>>

\* patches.py 110-116: one post-transform filter call
FilterAfter ==
    /\ pc = "post"
    /\ \E keep \in BOOLEAN :
        /\ calls' = Append(calls, [fn |-> "filter_after",
                                   id |-> filters_after_transform[k],
                                   patch |-> patch,
                                   ret |-> IF keep THEN "True" ELSE "False"])
        /\ pc' = AfterFilterAfter(keep, k)
        /\ j' = (IF pc' = "loop" THEN NextJ ELSE j)
        /\ k' = (IF pc' = "post" THEN k + 1 ELSE 1)
    /\ UNCHANGED <<inputVars, step, i, kept, metadata, patch, context,
                   returned, visited, reads, read_data, written, gc_at>>

\* patches.py 118: writer_fn(patch, context); None is not callable
Write ==
    /\ pc = "write"
    /\ IF writer_fn = "None"
       THEN /\ pc' = "raised"
            /\ UNCHANGED <<calls, written>>
       ELSE /\ pc' = "meta"
            /\ calls' = Append(calls, [fn |-> "writer_fn", id |-> 0,
                                       patch |-> patch, ret |-> "ignored"])
            /\ written' = Append(written,
                                 [patch_name |-> context.extra.patch.patch_name])
    /\ UNCHANGED <<inputVars, step, i, j, kept, metadata, k, patch, context,
                   returned, visited, reads, read_data, gc_at>>

\* patches.py 122-123: n is the value of kept after the increment
GcAfterCountsVisited(n, g) ==
    IF cfg.gc_every # 0 /\ Len(visited) % cfg.gc_every = 0 THEN Append(g, n) ELSE g
GcAfter(n, g) == IF cfg.gc_every # 0 /\ n % cfg.gc_every = 0 THEN Append(g, n) ELSE g

\* patches.py 119-123: metadata.append(metadata_fn(context)); kept += 1; gc
Record ==
    /\ pc = "meta"
    /\ IF metadata_fn = "None"
       THEN /\ pc' = "raised"
            /\ UNCHANGED <<calls, metadata, kept, gc_at, j>>
       ELSE /\ calls' = Append(calls, [fn |-> "metadata_fn", id |-> 0,
                                       patch |-> NoArray, ret |-> "record"])
            /\ metadata' = AppendRecord(metadata, default_metadata_fn(context))
            /\ kept' = kept + 1
            /\ gc_at' = GcAfter(kept + 1, gc_at)
            /\ j' = NextJ
            /\ pc' = "loop"
    /\ UNCHANGED <<inputVars, step, i, k, patch, context, returned, visited,
                   reads, read_data, written>>

\* patches.py 59, 124-125: the outer range is exhausted
Return ==
    /\ pc = "loop"
    /\ i >= ds.height
    /\ returned' = <<metadata>>
    /\ pc' = "done"
    /\ UNCHANGED <<inputVars, step, i, j, kept, metadata, k, patch, context,
                   visited, reads, read_data, calls, written, gc_at>>

NextCut ==
    \/ Start
    \/ BuildWindow
    \/ NextRow
    \/ FilterBefore
    \/ Transform
    \/ FilterAfter
    \/ Write
    \/ Record
    \/ Return

IdleCut ==
    /\ pc = "idle"
    /\ ds = [height |-> 1, width |-> 1, count |-> 1]
    /\ cfg = [patch_size |-> 1, step |-> None, bands |-> BandsNone, pad_value |-> 0,
              gc_every |-> 0, img_name |-> "img", crs |-> None]
    /\ transform = "None"
    /\ filters_before_transform = <<>> /\ filters_after_transform = <<>>
    /\ metadata_fn = "None" /\ writer_fn = "None"
    /\ step = 0 /\ i = 0 /\ j = 0 /\ kept = 0 /\ metadata = <<>>
    /\ k = 0
    /\ patch = NoArray /\ context = NoContext
    /\ returned = <<>>
    /\ visited = <<>> /\ reads = <<>> /\ calls = <<>> /\ written = <<>>
    /\ read_data = NoArray
    /\ gc_at = <<>>

\* --------------------------------------------------------- pad_to_square
PadCells == {1, 2}

\* (h, w) arrays with cells in PadCells
Arrays2D(maxh, maxw) ==
    UNION {[1..h -> [1..w -> PadCells]] : <<h, w>> \in (1..maxh) \X (1..maxw)}

\* A (C, h, w) array whose band c holds the cells of `rows` shifted by
\* 10 * (c - 1), so that the bands differ.
Stack(rows, nb) ==
    [c \in 1..nb |-> [r \in 1..Len(rows) |->
        [x \in 1..Len(rows[r]) |-> rows[r][x] + 10 * (c - 1)]]]

PadInputs ==
    {[ndim |-> 2, a |-> <<rows>>] : rows \in Arrays2D(MaxPadDim, MaxPadDim)}
    \cup {[ndim |-> 3, a |-> Stack(rows, nb)] :
            rows \in Arrays2D(MaxPadDim, MaxPadDim), nb \in 1..MaxPadBands}
    \cup {[ndim |-> 1, a |-> <<<<[x \in 1..n |-> 1]>>>>] : n \in 1..MaxPadDim}

InitPad ==
    /\ pad_pc = "call"
    /\ pad_patch \in PadInputs
    /\ pad_size \in 1..MaxPadSize
    /\ pad_val \in {0, 1}
    /\ pad_result = NoArray

IdlePad ==
    /\ pad_pc = "idle"
    /\ pad_patch = NoArray
    /\ pad_size = 0
    /\ pad_val = 0
    /\ pad_result = NoArray

\* core/transforms.py 89-126
PadToSquare ==
    /\ pad_pc = "call"
    /\ IF pad_patch.ndim \in {2, 3}
       THEN /\ pad_result' = pad_to_square(pad_patch, pad_size, pad_val)
            /\ pad_pc' = "returned"
       ELSE /\ pad_result' = NoArray
            /\ pad_pc' = "ValueError"
    /\ UNCHANGED <<pad_patch, pad_size, pad_val>>

NextPad == PadToSquare

\* -------------------------------------------- read_raster_window_chunked
\* geo/raster.py 20-31, as a number of bytes: the source divides by 2^30 and
\* compares with max_size_gb; here both sides are multiplied by 2^30.
estimate_window_size_b(window, dtype_bytes) == window.width * window.height * dtype_bytes

\* geo/raster.py 89-92: the defaults of max_size_gb and chunk_height
MaxSizeOf(m) == IF m = None THEN MAX_WINDOW_SIZE_B ELSE m[1]
ChunkHeightOf(c) == IF c = None THEN CHUNK_HEIGHT ELSE c[1]

\* geo/raster.py 102-107
ChunkWindowFullHeight(window, row_start, chunk_height) ==
    Window(window.col_off, window.row_off + row_start, window.width, chunk_height)
ChunkWindow(window, row_start, chunk_height) ==
    Window(window.col_off, window.row_off + row_start, window.width,
           Min(chunk_height, window.height - row_start))

RECURSIVE VStack(_)
\* np.vstack of a list of (h_n, w) arrays
VStack(chunks) ==
    IF chunks = <<>> THEN <<>> ELSE chunks[1] \o VStack(Tail(chunks))

\* the sample sizes of the rasters read: uint8, uint16, float32 (rasterio
\* returns arrays of the dataset's dtype, geo/raster.py 113 and 121)
ItemSizes == {1, 2, 4}

Budgets == {None, Some(0), Some(DTYPE_BYTES * MaxWinW), Some(DTYPE_BYTES * MaxWinW * 2),
            Some(DTYPE_BYTES * MaxWinW * MaxWinH)}

InitRead ==
    /\ rr_pc = "call"
    /\ rr_raster \in [height : {MaxWinH + MaxOff}, width : {MaxWinW + MaxOff},
                      count : {1}, itemsize : ItemSizes]
    /\ rr_window \in {Window(c, r, w, h) :
                        c \in 0..MaxOff, r \in 0..MaxOff, w \in 1..MaxWinW, h \in 1..MaxWinH}
    /\ rr_band = 1
    /\ rr_max_size \in Budgets
    /\ rr_chunk_height \in {None} \cup {Some(n) : n \in 1..MaxChunk}
    /\ rr_row_start = 0
    /\ rr_chunks = <<>>
    /\ rr_result = <<>>
    /\ rr_reads = <<>>

IdleRead ==
    /\ rr_pc = "idle"
    /\ rr_raster = [height |-> 1, width |-> 1, count |-> 1, itemsize |-> DTYPE_BYTES]
    /\ rr_window = Window(0, 0, 1, 1)
    /\ rr_band = 1
    /\ rr_max_size = None
    /\ rr_chunk_height = None
    /\ rr_row_start = 0
    /\ rr_chunks = <<>>
    /\ rr_result = <<>>
    /\ rr_reads = <<>>

rrInputs == <<rr_raster, rr_window, rr_band, rr_max_size, rr_chunk_height>>

\* geo/raster.py 94-97: the budget test
ExceedsBudget ==
    estimate_window_size_b(rr_window, DTYPE_BYTES) > MaxSizeOf(rr_max_size)

\* geo/raster.py 120-121: the window is read in one call
ReadWhole ==
    /\ rr_pc = "call"
    /\ ~ExceedsBudget
    /\ rr_reads' = Append(rr_reads, rr_window)
    /\ rr_result' = ReadBand(rr_raster, rr_band, rr_window)
    /\ rr_pc' = "returned"
    /\ UNCHANGED <<rrInputs, rr_row_start, rr_chunks>>

\* geo/raster.py 97-101: the chunk loop is entered
BeginChunks ==
    /\ rr_pc = "call"
    /\ ExceedsBudget
    /\ rr_chunks' = <<>>
    /\ rr_row_start' = 0
    /\ rr_pc' = "chunks"
    /\ UNCHANGED <<rrInputs, rr_result, rr_reads>>

\* geo/raster.py 101-114: one iteration of the chunk loop
ReadChunk ==
    /\ rr_pc = "chunks"
    /\ rr_row_start < rr_window.height
    /\ LET chunk_window == ChunkWindow(rr_window, rr_row_start,
                                       ChunkHeightOf(rr_chunk_height))
       IN /\ rr_reads' = Append(rr_reads, chunk_window)
          /\ rr_chunks' = Append(rr_chunks, ReadBand(rr_raster, rr_band, chunk_window))
    /\ rr_row_start' = rr_row_start + ChunkHeightOf(rr_chunk_height)
    /\ UNCHANGED <<rrInputs, rr_pc, rr_result>>

\* geo/raster.py 116: np.vstack builds the result while the list of chunks
\* is still referenced
Concat ==
    /\ rr_pc = "chunks"
    /\ rr_row_start >= rr_window.height
    /\ rr_result' = VStack(rr_chunks)
    /\ rr_pc' = "stacked"
    /\ UNCHANGED <<rrInputs, rr_row_start, rr_reads, rr_chunks>>

\* geo/raster.py 117-119 without the del: the list of chunks outlives the call
ReleaseKeepsChunks ==
    /\ rr_pc = "stacked"
    /\ rr_pc' = "returned"
    /\ UNCHANGED <<rrInputs, rr_row_start, rr_reads, rr_result, rr_chunks>>

\* geo/raster.py 117-119: del chunks, gc.collect(), return result
Release ==
    /\ rr_pc = "stacked"
    /\ rr_chunks' = <<>>
    /\ rr_pc' = "returned"
    /\ UNCHANGED <<rrInputs, rr_row_start, rr_reads, rr_result>>

NextRead ==
    \/ ReadWhole
    \/ BeginChunks
    \/ ReadChunk
    \/ Concat
    \/ Release

\* ------------------------------------------------------------ Context
\* pipelines/config.py 7
RESERVED == {"patch"}

\* A mapping is a function from names to values; a top-level value of extra
\* is a dict, another Mapping that is not a dict, or a scalar.
EmptyMap == [x \in {} |-> ""]
Res(kind, val, d) == [kind |-> kind, val |-> val, d |-> d]
NoRes == Res("none", "", EmptyMap)

\* pipelines/context.py 67-78, _validate_extra: TRUE when no TypeError is raised
validate_extra_SkipsReserved(extra) ==
    \A key \in DOMAIN extra \ RESERVED : extra[key].kind # "scalar"
validate_extra(extra) ==
    \A key \in DOMAIN extra : extra[key].kind # "scalar"

\* pipelines/context.py 35-39, Context.__getattr__
Context_getattr_CfgFirst(c, name) ==
    IF name \in DOMAIN c.cfg
    THEN Res("value", c.cfg[name], EmptyMap)
    ELSE IF name \in DOMAIN c.extra
         THEN Res(IF c.extra[name].kind = "dict" THEN "NS" ELSE "raw", "", c.extra[name].d)
         ELSE Res("AttributeError", "", EmptyMap)
Context_getattr(c, name) ==
    IF name \in DOMAIN c.extra
    THEN Res(IF c.extra[name].kind = "dict" THEN "NS" ELSE "raw", "", c.extra[name].d)
    ELSE IF name \in DOMAIN c.cfg
         THEN Res("value", c.cfg[name], EmptyMap)
         ELSE Res("AttributeError", "", EmptyMap)

\* pipelines/context.py 15-17, NS.__getattr__: self._d[k] raises KeyError
NS_getattr(d, key) ==
    IF key \in DOMAIN d THEN Res("value", d[key], EmptyMap) ELSE Res("KeyError", "", EmptyMap)

\* ctx.component.field as the pipeline stages write it (core/transforms.py
\* 68-73): Context.__getattr__ then attribute access on what it returned; a
\* Mapping that is not a dict and a scalar have no such attribute
ComponentField(c, component, fld) ==
    LET o == Context_getattr(c, component)
    IN IF o.kind = "NS" THEN NS_getattr(o.d, fld)
       ELSE Res("AttributeError", "", EmptyMap)

CfgFields == {"nodata", "patch_size"}
ComponentNames == {"patch", "filt", "nodata"}
ParamNames == {"nodata", "thr"}
ParamValues == {"u", "v"}
Mappings == UNION {[D -> ParamValues] : D \in SUBSET ParamNames}
ExtraValues == [kind : {"dict", "mapping"}, d : Mappings]
                   \cup {[kind |-> "scalar", d |-> EmptyMap]}
Extras == UNION {[D -> ExtraValues] : D \in SUBSET ComponentNames}
LookupNames == ComponentNames \cup CfgFields \cup {"missing"}

InitCtx ==
    /\ ctx_pc = "new"
    /\ ctx_cfg = [f \in CfgFields |-> "cfg_" \o f]
    /\ ctx_extra \in Extras
    /\ ctx_obj = None
    /\ ctx_req = <<>>
    /\ ctx_res = NoRes

IdleCtx ==
    /\ ctx_pc = "idle"
    /\ ctx_cfg = [f \in CfgFields |-> "cfg_" \o f]
    /\ ctx_extra = EmptyMap
    /\ ctx_obj = None
    /\ ctx_req = <<>>
    /\ ctx_res = NoRes

\* pipelines/context.py 80-81: Context(cfg, extra) runs __post_init__
Construct ==
    /\ ctx_pc = "new"
    /\ IF validate_extra(ctx_extra)
       THEN /\ ctx_obj' = Some([cfg |-> ctx_cfg, extra |-> ctx_extra])
            /\ ctx_pc' = "ready"
       ELSE /\ ctx_obj' = None
            /\ ctx_pc' = "TypeError"
    /\ UNCHANGED <<ctx_cfg, ctx_extra, ctx_req, ctx_res>>

\* ctx.name
GetAttr ==
    /\ ctx_pc = "ready"
    /\ \E name \in LookupNames :
          /\ ctx_req' = <<name>>
          /\ ctx_res' = Context_getattr(ctx_obj[1], name)
    /\ UNCHANGED <<ctx_pc, ctx_cfg, ctx_extra, ctx_obj>>

\* ctx.component.field
GetComponentField ==
    /\ ctx_pc = "ready"
    /\ \E component \in ComponentNames, fld \in ParamNames \cup CfgFields :
          /\ ctx_req' = <<component, fld>>
          /\ ctx_res' = ComponentField(ctx_obj[1], component, fld)
    /\ UNCHANGED <<ctx_pc, ctx_cfg, ctx_extra, ctx_obj>>

NextCtx ==
    \/ Construct
    \/ GetAttr
    \/ GetComponentField

\* -------------------------------------------------- fraction functions
\* A float sample is a number, NaN or an infinity; the comparisons are those
\* of IEEE 754 as numpy applies them element by element.
Num(n) == [t |-> "num", v |-> n]
NaN == [t |-> "nan", v |-> 0]
PInf == [t |-> "inf", v |-> 1]
CellGt(c, x) == (c.t = "num" /\ c.v > x) \/ (c.t = "inf" /\ c.v > 0)
CellGe(c, x) == (c.t = "num" /\ c.v >= x) \/ (c.t = "inf" /\ c.v > 0)
CellLt(c, x) == (c.t = "num" /\ c.v < x) \/ (c.t = "inf" /\ c.v < 0)
CellLe(c, x) == (c.t = "num" /\ c.v <= x) \/ (c.t = "inf" /\ c.v < 0)
CellEq(c, x) == c.t = "num" /\ c.v = x
CellNe(c, x) == ~CellEq(c, x)
IsFinite(c) == c.t = "num"

\* a float result as the quotient the source computes; 0.0 is Float(0, 1)
\* and the 0/0 of an unguarded division is Float(0, 0)
Float(num, den) == [kind |-> "float", num |-> num, den |-> den]
Raised(e) == [kind |-> e, num |-> 0, den |-> 1]
CountTrue(b) == Cardinality({n \in 1..Len(b) : b[n]})

\* core/filters.py 5-22
fraction_from_mask(binary_mask, valid_pixels, target_value) ==
    LET valid_count == CountTrue(valid_pixels)
    IN IF valid_count = 0 THEN Float(0, 1)
       ELSE Float(CountTrue([n \in 1..Len(binary_mask) |->
                                binary_mask[n] = target_value /\ valid_pixels[n]]),
                  valid_count)

\* core/filters.py 24-41: no strict parameter; passing one is a TypeError
filters_calculate_threshold_fraction(data, threshold, nodata, greater, strict) ==
    IF strict # None THEN Raised("TypeError")
    ELSE LET valid == [n \in 1..Len(data) |->
                          IF nodata = None THEN TRUE ELSE CellNe(data[n], nodata[1])]
             binary == [n \in 1..Len(data) |->
                          (IF greater THEN CellGt(data[n], threshold)
                                      ELSE CellLt(data[n], threshold)) /\ valid[n]]
         IN fraction_from_mask(binary, valid, TRUE)

\* core/masks.py 93-120; strict defaults to False
calculate_threshold_fraction(data, filter_value, nodata, greater, strict) ==
    LET is_strict == IF strict = None THEN FALSE ELSE strict[1]
        valid == [n \in 1..Len(data) |->
                     IF nodata = None THEN TRUE ELSE CellNe(data[n], nodata[1])]
        satisfied == [n \in 1..Len(data) |->
                         IF greater
                         THEN (IF is_strict THEN CellGt(data[n], filter_value)
                                            ELSE CellGe(data[n], filter_value))
                         ELSE (IF is_strict THEN CellLt(data[n], filter_value)
                                            ELSE CellLe(data[n], filter_value))]
        valid_count == CountTrue(valid)
    IN IF valid_count = 0 THEN Float(0, 1)
       ELSE Float(CountTrue([n \in 1..Len(data) |-> satisfied[n] /\ valid[n]]),
                  valid_count)

\* core/masks.py 18-36 without the test of lines 34-35
patch_value_fraction_NoZeroGuard(patch_, filter_value, nodata, valid_pixels) ==
    LET valid == IF valid_pixels # None THEN valid_pixels[1]
                 ELSE [n \in 1..Len(patch_) |->
                          IF nodata = None THEN TRUE ELSE CellNe(patch_[n], nodata[1])]
    IN Float(CountTrue([n \in 1..Len(patch_) |->
                           CellEq(patch_[n], filter_value) /\ valid[n]]),
             CountTrue(valid))
\* core/masks.py 18-36
patch_value_fraction(patch_, filter_value, nodata, valid_pixels) ==
    LET valid == IF valid_pixels # None THEN valid_pixels[1]
                 ELSE [n \in 1..Len(patch_) |->
                          IF nodata = None THEN TRUE ELSE CellNe(patch_[n], nodata[1])]
        valid_count == CountTrue(valid)
    IN IF valid_count = 0 THEN Float(0, 1)
       ELSE Float(CountTrue([n \in 1..Len(patch_) |->
                                CellEq(patch_[n], filter_value) /\ valid[n]]),
                  valid_count)

\* core/masks.py 71-79: binary_mask[i:i+patch_size, j:j+patch_size], padded at
\* the bottom and right with background_value to patch_size x patch_size
MaskPatch(binary_mask, i_, j_, patch_size, background_value) ==
    [r \in 1..patch_size |-> [c \in 1..patch_size |->
        IF i_ + r <= Len(binary_mask) /\ j_ + c <= Len(binary_mask[1])
        THEN binary_mask[i_ + r][j_ + c]
        ELSE background_value]]

\* number of TRUE cells of a 2-D boolean array
CountTrue2D(b) ==
    Cardinality({rc \in (1..Len(b)) \X (1..Len(b[1])) : b[rc[1]][rc[2]]})

\* core/masks.py 38-91 with the test of lines 82-83 dropped: no valid pixels
get_binary_mask_fraction_NoPatchCheck(binary_mask, i_, j_, patch_, patch_size, nodata, target_value, background_value, default_fraction, valid_pixels) ==
    IF binary_mask = None THEN default_fraction
    ELSE IF valid_pixels = None /\ patch_ = None THEN Float(0, 1)
    ELSE LET mask_patch == MaskPatch(binary_mask[1], i_, j_, patch_size, background_value)
             valid == IF valid_pixels # None THEN valid_pixels[1]
                      ELSE [r \in 1..patch_size |-> [c \in 1..patch_size |->
                               CellNe(patch_[1][r][c], nodata)]]
             valid_count == CountTrue2D(valid)
         IN IF valid_count = 0 THEN Float(0, 1)
            ELSE Float(CountTrue2D([r \in 1..patch_size |-> [c \in 1..patch_size |->
                                      mask_patch[r][c] = target_value /\ valid[r][c]]]),
                       valid_count)
\* core/masks.py 38-91; core/filters.py 43-96 is the same code
get_binary_mask_fraction(binary_mask, i_, j_, patch_, patch_size, nodata, target_value, background_value, default_fraction, valid_pixels) ==
    IF binary_mask = None THEN default_fraction
    ELSE IF valid_pixels = None /\ patch_ = None THEN Raised("ValueError")
    ELSE LET mask_patch == MaskPatch(binary_mask[1], i_, j_, patch_size, background_value)
             valid == IF valid_pixels # None THEN valid_pixels[1]
                      ELSE [r \in 1..patch_size |-> [c \in 1..patch_size |->
                               CellNe(patch_[1][r][c], nodata)]]
             valid_count == CountTrue2D(valid)
         IN IF valid_count = 0 THEN Float(0, 1)
            ELSE Float(CountTrue2D([r \in 1..patch_size |-> [c \in 1..patch_size |->
                                      mask_patch[r][c] = target_value /\ valid[r][c]]]),
                       valid_count)

\* inputs
DataCells == {Num(0), Num(1), Num(2), NaN, PInf}
Arrays1D(cells) == UNION {[1..n -> cells] : n \in 0..MaxCells}
Square(cells, n) == [1..n -> [1..n -> cells]]
NoArgs == [fn |-> "none"]

InitFrac ==
    /\ fr_pc = "call"
    /\ fr_res = Raised("none")
    /\ \/ \E n \in 0..MaxCells :
             fr_args \in [fn : {"fraction_from_mask"}, binary_mask : [1..n -> {0, 1}],
                          valid_pixels : [1..n -> BOOLEAN], target_value : {1}]
       \/ fr_args \in [fn : {"filters.calculate_threshold_fraction",
                              "masks.calculate_threshold_fraction"},
                        data : Arrays1D(DataCells), threshold : {1},
                        nodata : {None, Some(0)}, greater : BOOLEAN,
                        strict : {None, Some(TRUE), Some(FALSE)}]
       \/ \E n \in 0..MaxCells :
             fr_args \in [fn : {"patch_value_fraction"}, patch : [1..n -> DataCells],
                          filter_value : {1}, nodata : {None, Some(0)},
                          valid_pixels : {None} \cup {Some(b) : b \in [1..n -> BOOLEAN]}]
       \/ \E ps \in {1, 2} :
             fr_args \in [fn : {"get_binary_mask_fraction"},
                          binary_mask : {None} \cup {Some(b) : b \in Square({0, 1}, 2)},
                          i : 0..MaxMaskOff, j : 0..MaxMaskOff,
                          patch : {None} \cup {Some(q) : q \in Square({Num(0), Num(1)}, ps)},
                          patch_size : {ps}, nodata : {0}, target_value : {1},
                          background_value : {0}, default_fraction : {Float(1, 1)},
                          valid_pixels : {None} \cup
                              {Some(b) : b \in {[r \in 1..ps |-> [c \in 1..ps |-> FALSE]],
                                                [r \in 1..ps |-> [c \in 1..ps |-> TRUE]],
                                                [r \in 1..ps |-> [c \in 1..ps |-> r = c]]}}]

IdleFrac ==
    /\ fr_pc = "idle"
    /\ fr_args = NoArgs
    /\ fr_res = Raised("none")

Returning(res) ==
    /\ fr_res' = res
    /\ fr_pc' = IF res.kind = "float" THEN "returned" ELSE res.kind
    /\ UNCHANGED fr_args

CallFractionFromMask ==
    /\ fr_pc = "call" /\ fr_args.fn = "fraction_from_mask"
    /\ Returning(fraction_from_mask(fr_args.binary_mask, fr_args.valid_pixels,
                                    fr_args.target_value))

CallFiltersThresholdFraction ==
    /\ fr_pc = "call" /\ fr_args.fn = "filters.calculate_threshold_fraction"
    /\ Returning(filters_calculate_threshold_fraction(
                    fr_args.data, fr_args.threshold, fr_args.nodata,
                    fr_args.greater, fr_args.strict))

CallMasksThresholdFraction ==
    /\ fr_pc = "call" /\ fr_args.fn = "masks.calculate_threshold_fraction"
    /\ Returning(calculate_threshold_fraction(
                    fr_args.data, fr_args.threshold, fr_args.nodata,
                    fr_args.greater, fr_args.strict))

CallPatchValueFraction ==
    /\ fr_pc = "call" /\ fr_args.fn = "patch_value_fraction"
    /\ Returning(patch_value_fraction(fr_args.patch, fr_args.filter_value,
                                      fr_args.nodata, fr_args.valid_pixels))

CallBinaryMaskFraction ==
    /\ fr_pc = "call" /\ fr_args.fn = "get_binary_mask_fraction"
    /\ Returning(get_binary_mask_fraction(
                    fr_args.binary_mask, fr_args.i, fr_args.j, fr_args.patch,
                    fr_args.patch_size, fr_args.nodata, fr_args.target_value,
                    fr_args.background_value, fr_args.default_fraction,
                    fr_args.valid_pixels))

NextFrac ==
    \/ CallFractionFromMask
    \/ CallFiltersThresholdFraction
    \/ CallMasksThresholdFraction
    \/ CallPatchValueFraction
    \/ CallBinaryMaskFraction

\* ----------------------------------------------------- SAR normalization
\* Samples are 0 or a power of ten and scale_factor is a power of ten, given
\* by its exponent, so that log10 is exact: log10(img * scale_factor) is
\* Log10(img) + scale_exp.
Log10(x) == CASE x = 1 -> 0 [] x = 10 -> 1 [] x = 100 -> 2

\* log10 of LOG_EPS, the small positive floor of the logarithm's argument
\* (imported from configs/constants.py by core/transforms.py 5)
LOG_EPS_EXP == -6

\* core/masks.py 5-16 on integer samples, which are all finite
get_valid_mask(x, nodata) == nodata = None \/ x # nodata[1]

\* core/transforms.py 27: img * scale_factor > LOG_EPS
AboveEps(x, scale_exp) == x > 0 /\ Log10(x) + scale_exp > LOG_EPS_EXP

\* core/transforms.py 7-11: 20 * log10(max(img * scale_factor, LOG_EPS))
sar_log10(x, scale_exp) ==
    20 * (IF x > 0 THEN Max(Log10(x) + scale_exp, LOG_EPS_EXP) ELSE LOG_EPS_EXP)

\* core/transforms.py 13-14: np.clip
clip_percentile(x, low, high) == Min(Max(x, low), high)

\* the uint8 values a float-to-uint8 cast of NaN or of a value outside
\* 0..255 is taken to produce (the cast is undefined)
UndefinedCast == {0, 1, 255}

\* core/transforms.py 16-17 followed by the cast to uint8 (38, 61): the values
\* the cast of (x - low) / (high - low) * 255 can give; 0/0 is NaN
NormalizedUint8(x, low, high) ==
    IF high = low THEN UndefinedCast
    ELSE LET q == ((x - low) * 255) \div (high - low)
         IN IF q \in 0..255 /\ x >= low THEN {q} ELSE UndefinedCast

\* core/transforms.py 61: astype(uint8) of a decibel value left as it is
RawUint8(x) == IF x \in 0..255 THEN {x} ELSE UndefinedCast

RECURSIVE ArraysOf(_)
\* the arrays whose n-th element is one of choices[n]
ArraysOf(choices) ==
    IF choices = <<>> THEN {<<>>}
    ELSE {<<h>> \o t : h \in choices[1], t \in ArraysOf(Tail(choices))}

SetMin(S) == CHOOSE x \in S : \A y \in S : x <= y
SetMax(S) == CHOOSE x \in S : \A y \in S : x >= y
\* np.percentile for the percentiles 0 and 100
Percentile(S, q) == IF q = 0 THEN SetMin(S) ELSE SetMax(S)

\* core/transforms.py 19-39: the clip values used and the arrays the call
\* can return
sar_up_contrast_convert_to_uint8_pval(img, low_percentile_val, high_percentile_val, scale_exp, nodata) ==
    LET valid == [n \in 1..Len(img) |->
                     get_valid_mask(img[n], nodata) /\ img[n] > 0
                         /\ AboveEps(img[n], scale_exp)]
    IN [clip |-> <<low_percentile_val, high_percentile_val>>,
        outs |-> IF \A n \in 1..Len(img) : ~valid[n]
                 THEN {[n \in 1..Len(img) |-> 0]}
                 ELSE ArraysOf([n \in 1..Len(img) |->
                         IF valid[n]
                         THEN NormalizedUint8(
                                 clip_percentile(sar_log10(img[n], scale_exp),
                                                 low_percentile_val, high_percentile_val),
                                 low_percentile_val, high_percentile_val)
                         ELSE {0}])]

\* core/transforms.py 41-61
sar_up_contrast_convert_to_uint8_p(img, low_percentile, high_percentile, scale_exp, nodata) ==
    LET valid == [n \in 1..Len(img) |-> get_valid_mask(img[n], nodata) /\ img[n] > 0]
        db == [n \in 1..Len(img) |-> sar_log10(img[n], scale_exp)]
        validDb == {db[n] : n \in {m \in 1..Len(img) : valid[m]}}
    IN IF \A n \in 1..Len(img) : ~valid[n]
       THEN [clip |-> <<>>, outs |-> {[n \in 1..Len(img) |-> 0]}]
       ELSE LET vmin == Percentile(validDb, low_percentile)
                vmax == Percentile(validDb, high_percentile)
            IN [clip |-> <<vmin, vmax>>,
                outs |-> ArraysOf([n \in 1..Len(img) |->
                            IF valid[n]
                            THEN NormalizedUint8(clip_percentile(db[n], vmin, vmax), vmin, vmax)
                            ELSE RawUint8(clip_percentile(db[n], vmin, vmax))])]

SarSamples == {0, 1, 10, 100}
SarImages == UNION {[1..n -> SarSamples] : n \in 1..MaxSarCells}
ScaleExps == {0, -7}
SarNodata == {None, Some(0), Some(1)}

InitSar ==
    /\ sar_pc = "call"
    /\ sar_clip = <<>>
    /\ sar_out = <<>>
    /\ \/ sar_args \in [fn : {"sar_up_contrast_convert_to_uint8_pval"}, img : SarImages,
                         low : {0, 20}, high : {20, 40}, scale_exp : ScaleExps,
                         nodata : SarNodata]
       \/ sar_args \in [fn : {"sar_up_contrast_convert_to_uint8_p"}, img : SarImages,
                         low : {0}, high : {0, 100}, scale_exp : ScaleExps,
                         nodata : SarNodata]

IdleSar ==
    /\ sar_pc = "idle"
    /\ sar_args = NoArgs
    /\ sar_clip = <<>>
    /\ sar_out = <<>>

SarReturning(r) ==
    /\ sar_clip' = r.clip
    /\ sar_out' \in r.outs
    /\ sar_pc' = "returned"
    /\ UNCHANGED sar_args

CallSarPval ==
    /\ sar_pc = "call" /\ sar_args.fn = "sar_up_contrast_convert_to_uint8_pval"
    /\ SarReturning(sar_up_contrast_convert_to_uint8_pval(
                       sar_args.img, sar_args.low, sar_args.high, sar_args.scale_exp,
                       sar_args.nodata))

CallSarP ==
    /\ sar_pc = "call" /\ sar_args.fn = "sar_up_contrast_convert_to_uint8_p"
    /\ SarReturning(sar_up_contrast_convert_to_uint8_p(
                       sar_args.img, sar_args.low, sar_args.high, sar_args.scale_exp,
                       sar_args.nodata))

NextSar ==
    \/ CallSarPval
    \/ CallSarP

\* ----------------------------------------------- gen_capella_tile_patches
\* configs/ds_constants.py 22-34: the module-level dict maps a component name
\* to its parameter dict; the parameter dicts are objects of the heap, named
\* here by their component
CAPELLA_EXTRA_CTX ==
    [c \in {"threshold_fraction_filter_eq", "min_land_fraction_filter_random"} |-> c]
InitialHeap ==
    [threshold_fraction_filter_eq |->
        [filter_value |-> "0.0", nodata |-> "None", upper |-> "True",
         fraction_value |-> "0.75"],
     min_land_fraction_filter_random |->
        [land_mask |-> "None", min_land_threshold |-> "0.1", discard_prob |-> "0.98"]]

Runs == {1, 2}
LandMasks == {"None", "maskA", "maskB"}
ClipPairs == {<<0, 40>>, <<20, 40>>}

InitCap ==
    /\ cap_pc = [r \in Runs |-> "start"]
    /\ cap_in \in [Runs -> [land_mask : LandMasks, scale_factor : {"s1", "s2"},
                             overview_pair : ClipPairs]]
    /\ cap_pair = [r \in Runs |-> None]
    /\ cap_extra_ctx = [r \in Runs |-> EmptyMap]
    /\ cap_heap = InitialHeap

IdleCap ==
    /\ cap_pc = [r \in Runs |-> "idle"]
    /\ cap_in = [r \in Runs |-> [land_mask |-> "None", scale_factor |-> "s1",
                                   overview_pair |-> <<0, 40>>]]
    /\ cap_pair = [r \in Runs |-> None]
    /\ cap_extra_ctx = [r \in Runs |-> EmptyMap]
    /\ cap_heap = InitialHeap

\* datasets/capella.py 92-108: the clip values are computed from the overview
ComputePercentiles(r) ==
    /\ cap_pc[r] = "start"
    /\ cap_pair' = [cap_pair EXCEPT ![r] = Some(cap_in[r].overview_pair)]
    /\ cap_pc' = [cap_pc EXCEPT ![r] = "copy"]
    /\ UNCHANGED <<cap_in, cap_extra_ctx, cap_heap>>

\* datasets/capella.py 110: dict.copy() is shallow; the copy's values are the
\* parameter dicts of CAPELLA_EXTRA_CTX themselves
CopyExtraCtx(r) ==
    /\ cap_pc[r] = "copy"
    /\ cap_extra_ctx' = [cap_extra_ctx EXCEPT ![r] = CAPELLA_EXTRA_CTX]
    /\ cap_pc' = [cap_pc EXCEPT ![r] = "set_land_mask"]
    /\ UNCHANGED <<cap_in, cap_pair, cap_heap>>

\* datasets/capella.py 111
SetLandMask(r) ==
    /\ cap_pc[r] = "set_land_mask"
    /\ LET o == cap_extra_ctx[r]["min_land_fraction_filter_random"]
       IN cap_heap' = [cap_heap EXCEPT ![o].land_mask = cap_in[r].land_mask]
    /\ cap_pc' = [cap_pc EXCEPT ![r] = "set_scale_factor"]
    /\ UNCHANGED <<cap_in, cap_pair, cap_extra_ctx>>

\* datasets/capella.py 112: extra_ctx has no entry for the transform's
\* component, so the subscript raises KeyError and the run ends before
\* lines 113-129 (the clip values are never stored, cut_patches is not called)
SetScaleFactor(r) ==
    /\ cap_pc[r] = "set_scale_factor"
    /\ IF "sar_up_contrast_convert_uint8_pval_ctx" \in DOMAIN cap_extra_ctx[r]
       THEN cap_pc' = [cap_pc EXCEPT ![r] = "set_low_percentile_val"]
       ELSE cap_pc' = [cap_pc EXCEPT ![r] = "KeyError"]
    /\ UNCHANGED <<cap_in, cap_pair, cap_extra_ctx, cap_heap>>

NextCap ==
    \E r \in Runs :
        \/ ComputePercentiles(r)
        \/ CopyExtraCtx(r)
        \/ SetLandMask(r)
        \/ SetScaleFactor(r)

\* ------------------------------------------------------------------------
\* datasets/ghsl.py: detect_buildings, iter_windows, detect_buildings_chunked
\* ------------------------------------------------------------------------
\* ghsl.py 72-82: the windows the generator yields, in the order of its two
\* nested range(0, n, block) loops (rows outside, columns inside)
RangeLen(n, block) == (n + block - 1) \div block
\* ghsl.py 72-82 with the ranges cut to whole blocks
iter_windows_DropsRemainder(width, height, block) ==
    LET rows == height \div block
        cols == width \div block
    IN [n \in 1..(rows * cols) |->
           Window(((n - 1) % cols) * block, ((n - 1) \div cols) * block, block, block)]
\* ghsl.py 72-82
iter_windows(width, height, block) ==
    LET rows == RangeLen(height, block)
        cols == RangeLen(width, block)
    IN [n \in 1..(rows * cols) |->
           LET row_off == ((n - 1) \div cols) * block
               col_off == ((n - 1) % cols) * block
               h == Min(block, height - row_off)
               w == Min(block, width - col_off)
           IN Window(col_off, row_off, w, h)]

\* ghsl.py 121-131 and 48-57: nearest-neighbour reprojection onto the SAR
\* grid gives a destination pixel the value that belongs to its position, so
\* the destination of a window is that window of the whole reprojected grid
Reproject(grid, win) ==
    [r \in 1..win.height |-> [c \in 1..win.width |->
        grid[win.row_off + r][win.col_off + c]]]

\* the (row, column) positions of a 2-D array
Positions(dst) == (1..Len(dst)) \X (1..Len(dst[1]))

\* ghsl.py 97-98, 29 and 35 of the batch script: the default threshold
GHSL_BUILDINGS_THRESHOLD == 0
FilterValueOf(filter_value) ==
    IF filter_value = None THEN GHSL_BUILDINGS_THRESHOLD ELSE filter_value[1]

\* ghsl.py 133-140 with the comparison of line 136/140 made non-strict
BlockHitsNonStrict(dst, nodata, filter_value) ==
    LET Hit(v) == v >= filter_value /\ (nodata = None \/ v # nodata[1])
    IN Cardinality({rc \in Positions(dst) : Hit(dst[rc[1]][rc[2]])})
\* ghsl.py 133-140: the hits a block adds
BlockHits(dst, nodata, filter_value) ==
    LET Hit(v) == v > filter_value /\ (nodata = None \/ v # nodata[1])
    IN Cardinality({rc \in Positions(dst) : Hit(dst[rc[1]][rc[2]])})

\* ghsl.py 133-140: the valid pixels a block adds
BlockTotal(dst, nodata) ==
    LET Valid(v) == nodata = None \/ v # nodata[1]
    IN Cardinality({rc \in Positions(dst) : Valid(dst[rc[1]][rc[2]])})

\* the whole reprojected array as the flat array of samples handed to
\* calculate_threshold_fraction
Flatten(grid) ==
    [n \in 1..(Len(grid) * Len(grid[1])) |->
        Num(grid[((n - 1) \div Len(grid[1])) + 1][((n - 1) % Len(grid[1])) + 1])]

\* ghsl.py 12 and 59-65: the function imported from core.filters is called
\* with the keywords filter_value and strict, which it does not have
detect_buildings(grid, nodata, filter_value) ==
    filters_calculate_threshold_fraction(Flatten(grid), FilterValueOf(filter_value),
                                         nodata, TRUE, Some(TRUE))

MaxGW == 3
MaxBlock == 2
GhslValues == {0, 1, 2}
GhslNodata == {None, Some(0)}
GhslFilterValues == {None, Some(1)}

InitGhsl ==
    /\ gh_pc = "detect_buildings"
    /\ \E h \in {1, 2}, w \in 1..MaxGW :
          gh_in \in [width : {w}, height : {h}, block : 1..MaxBlock,
                     nodata : GhslNodata, filter_value : GhslFilterValues,
                     reprojected : [1..h -> [1..w -> GhslValues]]]
    /\ gh_wins = <<>>
    /\ gh_total = 0
    /\ gh_hits = 0
    /\ gh_res = NoArgs
    /\ gh_ref = NoArgs

IdleGhsl ==
    /\ gh_pc = "idle"
    /\ gh_in = NoArgs
    /\ gh_wins = <<>>
    /\ gh_total = 0
    /\ gh_hits = 0
    /\ gh_res = NoArgs
    /\ gh_ref = NoArgs

\* ghsl.py 15-70: the non-chunked function on the whole reprojected array
DetectBuildings ==
    /\ gh_pc = "detect_buildings"
    /\ gh_ref' = detect_buildings(gh_in.reprojected, gh_in.nodata, gh_in.filter_value)
    /\ gh_pc' = "detect_buildings_chunked"
    /\ UNCHANGED <<gh_in, gh_wins, gh_total, gh_hits, gh_res>>

\* ghsl.py 97-117: the chunked function up to its accumulators
BeginChunked ==
    /\ gh_pc = "detect_buildings_chunked"
    /\ gh_total' = 0
    /\ gh_hits' = 0
    /\ gh_wins' = <<>>
    /\ gh_pc' = "windows"
    /\ UNCHANGED <<gh_in, gh_res, gh_ref>>

\* ghsl.py 120-143: one iteration of the loop over iter_windows
Block ==
    /\ gh_pc = "windows"
    /\ Len(gh_wins) < Len(iter_windows(gh_in.width, gh_in.height, gh_in.block))
    /\ LET win == iter_windows(gh_in.width, gh_in.height, gh_in.block)[Len(gh_wins) + 1]
           dst == Reproject(gh_in.reprojected, win)
       IN /\ gh_wins' = Append(gh_wins, win)
          /\ gh_total' = gh_total + BlockTotal(dst, gh_in.nodata)
          /\ gh_hits' = gh_hits + BlockHits(dst, gh_in.nodata, FilterValueOf(gh_in.filter_value))
    /\ UNCHANGED <<gh_pc, gh_in, gh_res, gh_ref>>

\* ghsl.py 145-148: the loop is exhausted
ReturnFraction ==
    /\ gh_pc = "windows"
    /\ Len(gh_wins) = Len(iter_windows(gh_in.width, gh_in.height, gh_in.block))
    /\ gh_res' = IF gh_total = 0 THEN Float(0, 1) ELSE Float(gh_hits, gh_total)
    /\ gh_pc' = "returned"
    /\ UNCHANGED <<gh_in, gh_wins, gh_total, gh_hits, gh_ref>>

NextGhsl ==
    \/ DetectBuildings
    \/ BeginChunked
    \/ Block
    \/ ReturnFraction

\* ------------------------------------------------------------------------
\* scripts/generate_capella_patches.py: process_sar_single_image, process_sar
\* ------------------------------------------------------------------------
\* ds_constants.py 36 and 46, in centimetres and in percent
CAPELLA_RES_THRESHOLD_CM == 100
GHSL_MIN_BUILDING_COVG_PCT == 30

MaxRasters == 2
MaxTilePatches == 1

\* what one call of process_sar_single_image did: how it ended, the value it
\* returned, the calls it made and the metadata file it wrote
Outcome(kind, num_patches, events, files) ==
    [kind |-> kind, num_patches |-> num_patches, events |-> events, files |-> files]

\* datasets.capella.process_capella_sar_tile, not in the source tree: it
\* returns one metadata record per patch it kept
process_capella_sar_tile(sar) == [n \in 1..sar.patches |-> <<sar.name, n>>]

\* generate_capella_patches.py 25-64
process_sar_single_image(sar) ==
    IF ~sar.opens THEN Outcome("IOError", 0, <<>>, {})
    ELSE IF sar.res >= CAPELLA_RES_THRESHOLD_CM THEN Outcome("returned", 0, <<>>, {})
    ELSE LET building_ratio ==
                 detect_buildings(sar.reprojected, sar.nodata, Some(GHSL_BUILDINGS_THRESHOLD))
         IN IF building_ratio.kind # "float"
            THEN Outcome(building_ratio.kind, 0, <<"detect_buildings">>, {})
            ELSE IF building_ratio.num * 100 >= GHSL_MIN_BUILDING_COVG_PCT * building_ratio.den
            THEN LET tile_metadata == process_capella_sar_tile(sar)
                 IN Outcome("returned", Len(tile_metadata),
                            <<"detect_buildings", "osm_rasterize_sat_land_mask",
                              "process_capella_sar_tile", "list_dict_to_parquet">>,
                            {sar.name})
            ELSE Outcome("returned", 0, <<"detect_buildings">>, {})

SarRasters ==
    [name : {"a"}, opens : BOOLEAN, res : {50, 100},
     reprojected : [1..1 -> [1..2 -> {0, 1}]], nodata : {None},
     patches : 0..MaxTilePatches]

\* the rasters found in the directory, named by their position
Named(q) == [n \in 1..Len(q) |-> [q[n] EXCEPT !.name = n]]

InitBatch ==
    /\ bp_pc = "process_sar"
    /\ \E n \in 1..MaxRasters : \E q \in [1..n -> SarRasters] : bp_in = Named(q)
    /\ bp_idx = 0
    /\ bp_total = 0
    /\ bp_log = <<>>
    /\ bp_files = {}
    /\ bp_merged = FALSE

IdleBatch ==
    /\ bp_pc = "idle"
    /\ bp_in = <<>>
    /\ bp_idx = 0
    /\ bp_total = 0
    /\ bp_log = <<>>
    /\ bp_files = {}
    /\ bp_merged = FALSE

\* generate_capella_patches.py 80-90: directories, land polygons, GHSL opened
BeginBatch ==
    /\ bp_pc = "process_sar"
    /\ bp_pc' = "loop"
    /\ bp_total' = 0
    /\ UNCHANGED <<bp_in, bp_idx, bp_log, bp_files, bp_merged>>

\* generate_capella_patches.py 93-99 / 107-112: one iteration of the loop
\* over the directory; an exception of the call leaves process_sar
SingleImage ==
    /\ bp_pc = "loop"
    /\ bp_idx < Len(bp_in)
    /\ LET o == process_sar_single_image(bp_in[bp_idx + 1])
       IN /\ bp_log' = Append(bp_log, o)
          /\ bp_files' = bp_files \cup o.files
          /\ IF o.kind = "returned"
             THEN /\ bp_total' = bp_total + o.num_patches
                  /\ bp_idx' = bp_idx + 1
                  /\ bp_pc' = "loop"
             ELSE /\ bp_pc' = o.kind
                  /\ UNCHANGED <<bp_total, bp_idx>>
    /\ UNCHANGED <<bp_in, bp_merged>>

\* generate_capella_patches.py 114-123: the per-image tables are merged
MergeMetadata ==
    /\ bp_pc = "loop"
    /\ bp_idx = Len(bp_in)
    /\ bp_merged' = (bp_files # {})
    /\ bp_pc' = "done"
    /\ UNCHANGED <<bp_in, bp_idx, bp_total, bp_log, bp_files>>

NextBatch ==
    \/ BeginBatch
    \/ SingleImage
    \/ MergeMetadata

\* ------------------------------------------------------------------------
\* cut_patches as the Capella pipeline calls it (capella.py 116-129): the
\* configuration of init_capella_patch_config, save_capella_patch as writer
\* and default_metadata_fn as metadata function
\* ------------------------------------------------------------------------
MaxSvW == 2
MaxSvPatch == 2

\* capella.py 66-81: step is left at None, bands = CAPELLA_BANDS, nodata 0
init_capella_patch_config(patch_size, out_dir, img_name) ==
    [patch_size |-> patch_size, step |-> None, bands |-> BandsInt(1), pad_value |-> 0,
     gc_every |-> 1000, img_name |-> img_name, crs |-> None, out_dir |-> out_dir]

\* capella.py 40-64 with the except clause of lines 62-64 removed
save_capella_patch_Reraises(ctx, ok) ==
    LET patch_name == <<ctx.cfg.img_name, "_patch_", ctx.extra.patch.i, "_",
                        ctx.extra.patch.j, ".tif">>
        out_path == <<ctx.cfg.out_dir, "/", patch_name>>
    IN [kind |-> IF ok THEN "returned" ELSE "raised", ret |-> 1,
        patch_name |-> patch_name, out_path |-> out_path, saved |-> ok]
\* capella.py 40-64: ok tells whether rasterio could create and write the
\* file; context.img_name and context.out_dir resolve to the cfg fields
save_capella_patch(ctx, ok) ==
    LET patch_name == <<ctx.cfg.img_name, "_patch_", ctx.extra.patch.i, "_",
                        ctx.extra.patch.j, ".tif">>
        out_path == <<ctx.cfg.out_dir, "/", patch_name>>
    IN [kind |-> "returned", ret |-> IF ok THEN 1 ELSE 0,
        patch_name |-> patch_name, out_path |-> out_path, saved |-> ok]

InitSave ==
    /\ sv_pc = "start"
    /\ sv_ds \in [height : {1, 2}, width : 1..MaxSvW, count : {1}]
    /\ \E ps \in 1..MaxSvPatch : sv_cfg = init_capella_patch_config(ps, "out", "img")
    /\ sv_i = 0 /\ sv_j = 0 /\ sv_kept = 0
    /\ sv_metadata = <<>>
    /\ sv_context = NoContext
    /\ sv_writes = <<>>
    /\ sv_files = {}
    /\ sv_returned = <<>>

IdleSave ==
    /\ sv_pc = "idle"
    /\ sv_ds = [height |-> 1, width |-> 1, count |-> 1]
    /\ sv_cfg = init_capella_patch_config(1, "out", "img")
    /\ sv_i = 0 /\ sv_j = 0 /\ sv_kept = 0
    /\ sv_metadata = <<>>
    /\ sv_context = NoContext
    /\ sv_writes = <<>>
    /\ sv_files = {}
    /\ sv_returned = <<>>

\* patches.py 48-57
SvStart ==
    /\ sv_pc = "start"
    /\ sv_kept' = 0
    /\ sv_metadata' = <<>>
    /\ sv_i' = 0 /\ sv_j' = 0
    /\ sv_pc' = "loop"
    /\ UNCHANGED <<sv_ds, sv_cfg, sv_context, sv_writes, sv_files, sv_returned>>

\* patches.py 60-116: the window and its Context are built; the two
\* pre-transform filters and the transform decide whether it goes on
SvWindow ==
    /\ sv_pc = "loop"
    /\ sv_i < sv_ds.height /\ sv_j < sv_ds.width
    /\ LET window_h == Min(sv_cfg.patch_size, sv_ds.height - sv_i)
           window_w == Min(sv_cfg.patch_size, sv_ds.width - sv_j)
           window == Window(sv_j, sv_i, window_w, window_h)
       IN sv_context' = MakeContext(sv_cfg, window, sv_i, sv_j)
    /\ \E keep \in BOOLEAN :
          IF keep
          THEN sv_pc' = "write" /\ sv_j' = sv_j
          ELSE sv_pc' = "loop" /\ sv_j' = sv_j + StepOf(sv_cfg)
    /\ UNCHANGED <<sv_ds, sv_cfg, sv_i, sv_kept, sv_metadata, sv_writes, sv_files,
                   sv_returned>>

\* patches.py 118 and capella.py 40-64: the writer is called and its return
\* value dropped
SvWrite ==
    /\ sv_pc = "write"
    /\ \E ok \in BOOLEAN :
          LET w == save_capella_patch(sv_context, ok)
          IN /\ sv_writes' = Append(sv_writes, w)
             /\ sv_files' = IF w.saved THEN sv_files \cup {w.out_path} ELSE sv_files
             /\ sv_pc' = IF w.kind = "raised" THEN "raised" ELSE "meta"
    /\ UNCHANGED <<sv_ds, sv_cfg, sv_i, sv_j, sv_kept, sv_metadata, sv_context,
                   sv_returned>>

\* patches.py 119-123
SvRecord ==
    /\ sv_pc = "meta"
    /\ sv_metadata' = AppendRecord(sv_metadata, default_metadata_fn(sv_context))
    /\ sv_kept' = sv_kept + 1
    /\ sv_j' = sv_j + StepOf(sv_cfg)
    /\ sv_pc' = "loop"
    /\ UNCHANGED <<sv_ds, sv_cfg, sv_i, sv_context, sv_writes, sv_files, sv_returned>>

\* patches.py 60: the inner range is exhausted, the outer one advances
SvNextRow ==
    /\ sv_pc = "loop"
    /\ sv_i < sv_ds.height /\ sv_j >= sv_ds.width
    /\ sv_i' = sv_i + StepOf(sv_cfg)
    /\ sv_j' = 0
    /\ UNCHANGED <<sv_pc, sv_ds, sv_cfg, sv_kept, sv_metadata, sv_context, sv_writes,
                   sv_files, sv_returned>>

\* patches.py 59, 124-125
SvReturn ==
    /\ sv_pc = "loop"
    /\ sv_i >= sv_ds.height
    /\ sv_returned' = <<sv_metadata>>
    /\ sv_pc' = "done"
    /\ UNCHANGED <<sv_ds, sv_cfg, sv_i, sv_j, sv_kept, sv_metadata, sv_context,
                   sv_writes, sv_files>>

NextSave ==
    \/ SvStart
    \/ SvWindow
    \/ SvWrite
    \/ SvRecord
    \/ SvNextRow
    \/ SvReturn

\* --------------------------------------------------------- specifications
Init == InitCut /\ IdlePad /\ IdleRead /\ IdleCtx /\ IdleFrac /\ IdleSar /\ IdleCap /\ IdleGhsl /\ IdleBatch /\ IdleSave
Next == NextCut /\ UNCHANGED <<padVars, rrVars, ctxVars, frVars, sarVars, capVars, ghVars, bpVars, svVars>>
Spec == Init /\ [][Next]_vars
FairSpec == Spec /\ WF_vars(Next)

InitPadSpec == IdleCut /\ InitPad /\ IdleRead /\ IdleCtx /\ IdleFrac /\ IdleSar /\ IdleCap /\ IdleGhsl /\ IdleBatch /\ IdleSave
NextPadSpec == NextPad /\ UNCHANGED <<cutVars, rrVars, ctxVars, frVars, sarVars, capVars, ghVars, bpVars, svVars>>
SpecPad == InitPadSpec /\ [][NextPadSpec]_vars

InitReadSpec == IdleCut /\ IdlePad /\ InitRead /\ IdleCtx /\ IdleFrac /\ IdleSar /\ IdleCap /\ IdleGhsl /\ IdleBatch /\ IdleSave
NextReadSpec == NextRead /\ UNCHANGED <<cutVars, padVars, ctxVars, frVars, sarVars, capVars, ghVars, bpVars, svVars>>
SpecRead == InitReadSpec /\ [][NextReadSpec]_vars

InitCtxSpec == IdleCut /\ IdlePad /\ IdleRead /\ InitCtx /\ IdleFrac /\ IdleSar /\ IdleCap /\ IdleGhsl /\ IdleBatch /\ IdleSave
NextCtxSpec == NextCtx /\ UNCHANGED <<cutVars, padVars, rrVars, frVars, sarVars, capVars, ghVars, bpVars, svVars>>
SpecCtx == InitCtxSpec /\ [][NextCtxSpec]_vars

InitFracSpec == IdleCut /\ IdlePad /\ IdleRead /\ IdleCtx /\ InitFrac /\ IdleSar /\ IdleCap /\ IdleGhsl /\ IdleBatch /\ IdleSave
NextFracSpec == NextFrac /\ UNCHANGED <<cutVars, padVars, rrVars, ctxVars, sarVars, capVars, ghVars, bpVars, svVars>>
SpecFrac == InitFracSpec /\ [][NextFracSpec]_vars

InitSarSpec == IdleCut /\ IdlePad /\ IdleRead /\ IdleCtx /\ IdleFrac /\ InitSar /\ IdleCap /\ IdleGhsl /\ IdleBatch /\ IdleSave
NextSarSpec == NextSar /\ UNCHANGED <<cutVars, padVars, rrVars, ctxVars, frVars, capVars, ghVars, bpVars, svVars>>
SpecSar == InitSarSpec /\ [][NextSarSpec]_vars

InitCapSpec == IdleCut /\ IdlePad /\ IdleRead /\ IdleCtx /\ IdleFrac /\ IdleSar /\ InitCap /\ IdleGhsl /\ IdleBatch /\ IdleSave
NextCapSpec == NextCap /\ UNCHANGED <<cutVars, padVars, rrVars, ctxVars, frVars, sarVars, ghVars, bpVars, svVars>>
SpecCap == InitCapSpec /\ [][NextCapSpec]_vars

InitGhslSpec == IdleCut /\ IdlePad /\ IdleRead /\ IdleCtx /\ IdleFrac /\ IdleSar /\ IdleCap /\ InitGhsl /\ IdleBatch /\ IdleSave
NextGhslSpec == NextGhsl /\ UNCHANGED <<cutVars, padVars, rrVars, ctxVars, frVars, sarVars, capVars, bpVars, svVars>>
SpecGhsl == InitGhslSpec /\ [][NextGhslSpec]_vars

InitBatchSpec == IdleCut /\ IdlePad /\ IdleRead /\ IdleCtx /\ IdleFrac /\ IdleSar /\ IdleCap /\ IdleGhsl /\ InitBatch /\ IdleSave
NextBatchSpec == NextBatch /\ UNCHANGED <<cutVars, padVars, rrVars, ctxVars, frVars, sarVars, capVars, ghVars, svVars>>
SpecBatch == InitBatchSpec /\ [][NextBatchSpec]_vars

InitSaveSpec == IdleCut /\ IdlePad /\ IdleRead /\ IdleCtx /\ IdleFrac /\ IdleSar /\ IdleCap /\ IdleGhsl /\ IdleBatch /\ InitSave
NextSaveSpec == NextSave /\ UNCHANGED <<cutVars, padVars, rrVars, ctxVars, frVars, sarVars, capVars, ghVars, bpVars>>
SpecSave == InitSaveSpec /\ [][NextSaveSpec]_vars

\* ------------------------------------------------------------------------
\* Properties of cut_patches (specification Spec / FairSpec)
\* ------------------------------------------------------------------------
Callable == writer_fn = "fn" /\ metadata_fn = "fn"
Last(q) == q[Len(q)]
CurName == context.extra.patch.patch_name
NamesOf(q) == {q[n].patch_name : n \in 1..Len(q)}
WindowName(w) == PatchName(cfg.img_name, w.row_off, w.col_off)

\* The tiling written as a closed form, independent of the loop.
ExpStep == IF cfg.step = None THEN cfg.patch_size ELSE cfg.step[1]
ExpRows == (ds.height + ExpStep - 1) \div ExpStep
ExpCols == (ds.width + ExpStep - 1) \div ExpStep
ExpWindow(n) ==
    LET wi == ((n - 1) \div ExpCols) * ExpStep
        wj == ((n - 1) % ExpCols) * ExpStep
    IN Window(wj, wi, Min(cfg.patch_size, ds.width - wj),
              Min(cfg.patch_size, ds.height - wi))

\* C1: the windows visited so far are, in order, the first windows of the
\* row-major enumeration of the offsets (a*step, b*step) below (H, W), each
\* of height min(patch_size, H - i) and width min(patch_size, W - j), and at
\* return every such window has been visited exactly once.
C1_RowMajorTiling ==
    /\ Len(visited) <= ExpRows * ExpCols
    /\ \A n \in 1..Len(visited) : visited[n] = ExpWindow(n)
    /\ pc = "done" => Len(visited) = ExpRows * ExpCols

\* C1 witness: the 2x2 analogue of the 1024x1024 example (step = patch_size
\* by default, raster side twice the patch) has returned after four windows.
C1_Witness ==
    /\ pc = "done"
    /\ ds.height = 2 /\ ds.width = 2
    /\ cfg.patch_size = 1 /\ cfg.step = None
    /\ visited = <<Window(0, 0, 1, 1), Window(1, 0, 1, 1),
                   Window(0, 1, 1, 1), Window(1, 1, 1, 1)>>

Rejected == \E n \in 1..Len(calls) : calls[n].ret \in {"False", "None"}

\* C2: whenever a window's pipeline has completed (the loop is back at its
\* head) or cut_patches has returned, there are as many metadata records as
\* writer_fn invocations and they name the same patches in the same order; a
\* window rejected by a filter or by the transform has neither.
C2_RecordsMatchWrites ==
    /\ pc \in {"loop", "done"} =>
          /\ Len(metadata) = Len(written)
          /\ \A n \in 1..Len(metadata) : metadata[n].patch_name = written[n].patch_name
    /\ (visited # <<>> /\ Rejected) =>
          /\ CurName \notin NamesOf(written)
          /\ CurName \notin NamesOf(metadata)
          /\ \A n \in 1..Len(calls) : calls[n].fn \notin {"writer_fn", "metadata_fn"}

\* C2 witness: one window was kept, a later one was rejected, and the loop is
\* back at its head.
C2_Witness ==
    /\ pc = "loop" /\ Rejected
    /\ Len(metadata) = 1 /\ Len(written) = 1

PaddedOf(w) == pad_to_square(DsRead(ds, cfg.bands, w), cfg.patch_size, cfg.pad_value)
CurPadded == PaddedOf(Last(visited))
CurTransformed == IF transform = "None" THEN CurPadded ELSE ApplyTransform(CurPadded)
RetsOf(fn) == {<<calls[n].id, calls[n].ret>> : n \in {m \in 1..Len(calls) : calls[m].fn = fn}}
AllPassed ==
    /\ RetsOf("filter_before") =
          {<<filters_before_transform[n], "True">> : n \in 1..Len(filters_before_transform)}
    /\ transform # "None" => RetsOf("transform") = {<<0, "patch">>}
    /\ RetsOf("filter_after") =
          {<<filters_after_transform[n], "True">> : n \in 1..Len(filters_after_transform)}

\* C3: once a window's pipeline has completed (writer and metadata function
\* being callables), the window is written and recorded exactly when every
\* pre-transform filter returned true, the transform (if any) returned a
\* patch and every post-transform filter returned true; the pre-transform
\* filters and the transform are handed the padded patch, the post-transform
\* filters and the writer the transformed one.
C3_KeptIffAllPass ==
    visited # <<>> =>
      /\ (Callable /\ pc \in {"loop", "done"}) =>
            /\ (CurName \in NamesOf(written)) <=> AllPassed
            /\ (CurName \in NamesOf(metadata)) <=> AllPassed
      /\ \A n \in 1..Len(calls) :
            /\ calls[n].fn \in {"filter_before", "transform"} => calls[n].patch = CurPadded
            /\ calls[n].fn \in {"filter_after", "writer_fn"} => calls[n].patch = CurTransformed

\* C3 witness: a window went through two pre-transform filters, a transform
\* and a post-transform filter and was written with the transformed patch.
C3_Witness ==
    /\ pc = "loop" /\ visited # <<>>
    /\ Len(filters_before_transform) = 2 /\ transform = "fn"
    /\ Len(filters_after_transform) = 1
    /\ AllPassed
    /\ CurName \in NamesOf(written) /\ CurName \in NamesOf(metadata)
    /\ \E n \in 1..Len(calls) :
          /\ calls[n].fn = "writer_fn"
          /\ calls[n].patch = ApplyTransform(CurPadded)
          /\ calls[n].patch # CurPadded

\* C4: the pre-transform filters are called in configured order, each at
\* most once per window; a false result is the last call made for that window,
\* and the loop then moves on to the next column offset (or the next row).
C4_PreFilterShortCircuit ==
    visited # <<>> =>
      LET nb == Cardinality({n \in 1..Len(calls) : calls[n].fn = "filter_before"})
      IN /\ nb <= Len(filters_before_transform)
         /\ \A n \in 1..nb :
               /\ calls[n].fn = "filter_before"
               /\ calls[n].id = filters_before_transform[n]
         /\ \A n \in 1..Len(calls) :
               (calls[n].fn = "filter_before" /\ calls[n].ret = "False") =>
                  /\ n = Len(calls)
                  /\ pc \in {"loop", "done"}
                  /\ \/ i = context.extra.patch.i /\ j = context.extra.patch.j + ExpStep
                     \/ i = context.extra.patch.i + ExpStep /\ j = 0

\* C4 witness: the first of two pre-transform filters returned false and
\* nothing else was called for the window.
C4_Witness ==
    /\ Len(filters_before_transform) = 2
    /\ Len(calls) = 1
    /\ calls[1].fn = "filter_before" /\ calls[1].id = 1 /\ calls[1].ret = "False"
    /\ pc = "loop"

PosOf(name) == CHOOSE n \in 1..Len(visited) : WindowName(visited[n]) = name
WindowComplete ==
    \/ visited = <<>>
    \/ /\ calls # <<>>
       /\ \/ Last(calls).ret \in {"False", "None"}
          \/ Last(calls).fn = "metadata_fn"

\* C5: the metadata records are in window visitation order, and a new window
\* is only built when the previous window's pipeline has run to its end
\* (a rejection, or the metadata record appended).
C5_MetadataInVisitOrder ==
    /\ [](/\ \A n \in 1..Len(metadata) :
                \E m \in 1..Len(visited) : WindowName(visited[m]) = metadata[n].patch_name
          /\ \A a, b \in 1..Len(metadata) :
                a < b => PosOf(metadata[a].patch_name) < PosOf(metadata[b].patch_name))
    /\ [][visited' # visited => WindowComplete]_vars

\* C5 witness: two windows were kept with a rejected window between them.
C5_Witness ==
    /\ Len(metadata) = 2 /\ Len(visited) = 3
    /\ metadata[1].patch_name = WindowName(visited[1])
    /\ metadata[2].patch_name = WindowName(visited[3])

\* C6: gc.collect() has run exactly once for each positive multiple of
\* cfg.gc_every reached by the kept counter (never when gc_every is 0), and the
\* kept counter counts the kept windows only.
C6_GcEveryKept ==
    /\ kept = Len(metadata)
    /\ kept <= Len(visited)
    /\ IF cfg.gc_every = 0 THEN gc_at = <<>>
       ELSE gc_at = [n \in 1..(kept \div cfg.gc_every) |-> n * cfg.gc_every]

\* C6 witness: with gc_every = 2, three windows were visited, one of them
\* rejected, and the single reclamation pass ran at the second kept patch.
C6_Witness ==
    /\ cfg.gc_every = 2
    /\ Len(visited) = 3 /\ kept = 2 /\ pc = "loop"
    /\ gc_at = <<2>>

NoWindowTwice ==
    \A a, b \in 1..Len(visited) : a # b => visited[a] # visited[b]

\* C7: with a writer and a metadata function that return, cut_patches
\* eventually returns; no window is visited twice; the value returned is the
\* accumulated metadata, one record per kept window.
C7_Terminates ==
    /\ (Callable ~> pc = "done")
    /\ []NoWindowTwice
    /\ [](pc = "done" =>
            /\ returned = <<metadata>>
            /\ Len(metadata) = kept
            /\ Len(written) = kept
            /\ Cardinality(NamesOf(metadata)) = kept)

\* C7 witness: a run over four windows has returned a non-empty list.
C7_Witness ==
    /\ pc = "done" /\ Len(visited) = 4
    /\ returned # <<>> /\ Len(returned[1]) >= 1 /\ Len(returned[1]) < 4

ExpectedBands ==
    IF cfg.bands.kind = "none" THEN [b \in 1..ds.count |-> b] ELSE cfg.bands.idx

PlanesOf(p) == p.a

\* C8: for a 2-D or 3-D patch no taller and no wider than patch_size, the
\* result has shape (P, P) or (C, P, P), its top-left h-by-w region is the
\* input and every other cell is pad_value (the padding is at the bottom and
\* at the right only).
C8_PadToSquare ==
    (/\ pad_pc = "returned"
     /\ ShapeH(pad_patch) <= pad_size
     /\ ShapeW(pad_patch) <= pad_size) =>
       LET h == ShapeH(pad_patch)
           w == ShapeW(pad_patch)
           inp == PlanesOf(pad_patch)
           out == PlanesOf(pad_result)
       IN /\ pad_result.ndim = pad_patch.ndim
          /\ Len(out) = Len(inp)
          /\ \A c \in 1..Len(out) :
                /\ Len(out[c]) = pad_size
                /\ \A r \in 1..pad_size :
                      /\ Len(out[c][r]) = pad_size
                      /\ \A x \in 1..pad_size :
                            out[c][r][x] =
                               (IF r <= h /\ x <= w THEN inp[c][r][x] ELSE pad_val)

\* C8 witness: a (2, 1, 2) patch of non-pad cells was padded to (2, 3, 3).
C8_Witness ==
    /\ pad_pc = "returned"
    /\ pad_patch.ndim = 3 /\ Len(pad_patch.a) = 2
    /\ ShapeH(pad_patch) = 1 /\ ShapeW(pad_patch) = 2
    /\ pad_size = 3 /\ pad_val = 0
    /\ pad_result # pad_patch
    /\ pad_result.a[2][1][2] = pad_patch.a[2][1][2]
    /\ pad_result.a[2][3][3] = 0

\* ------------------------------------------------------------------------
\* Properties of read_raster_window_chunked (specification SpecRead)
\* ------------------------------------------------------------------------
ExpChunk == IF rr_chunk_height = None THEN CHUNK_HEIGHT ELSE rr_chunk_height[1]
ExpBudget == IF rr_max_size = None THEN MAX_WINDOW_SIZE_B ELSE rr_max_size[1]
WithinBudget == rr_window.width * rr_window.height * DTYPE_BYTES <= ExpBudget
RECURSIVE SumHeights(_)
SumHeights(q) == IF q = <<>> THEN 0 ELSE q[1].height + SumHeights(Tail(q))

\* C10: within the budget the function issues one read, of the whole window;
\* over the budget its reads keep the window's column offset and width, start
\* at the window's row offset, follow one another without gap or overlap in
\* steps of chunk_height rows (the last one possibly shorter), cover the
\* window height exactly, and their concatenation is the single-shot read.
C10_ChunkedReadEqualsSingleShot ==
    /\ WithinBudget =>
          /\ Len(rr_reads) <= 1
          /\ rr_pc = "returned" =>
                /\ rr_reads = <<rr_window>>
                /\ rr_result = ReadBand(rr_raster, rr_band, rr_window)
    /\ ~WithinBudget =>
          /\ \A n \in 1..Len(rr_reads) :
                /\ rr_reads[n].col_off = rr_window.col_off
                /\ rr_reads[n].width = rr_window.width
                /\ rr_reads[n].row_off = rr_window.row_off + (n - 1) * ExpChunk
                /\ rr_reads[n].height >= 1
                /\ rr_reads[n].height <= ExpChunk
                /\ n < Len(rr_reads) =>
                      /\ rr_reads[n].height = ExpChunk
                      /\ rr_reads[n + 1].row_off = rr_reads[n].row_off + rr_reads[n].height
          /\ SumHeights(rr_reads) <= rr_window.height
          /\ rr_pc = "returned" =>
                /\ SumHeights(rr_reads) = rr_window.height
                /\ rr_result = ReadBand(rr_raster, rr_band, rr_window)

\* C10 witness: a window of four rows over the budget was read in chunks of
\* three rows and one row.
C10_Witness ==
    /\ rr_pc = "returned"
    /\ rr_window.height = 4 /\ rr_chunk_height = Some(3)
    /\ Len(rr_reads) = 2
    /\ rr_reads[1].height = 3 /\ rr_reads[2].height = 1
    /\ rr_window.row_off = 1 /\ rr_window.col_off = 1

\* bytes of sample data referenced by the call: the chunks in the list and
\* the array bound to result
RowBytes == rr_window.width * rr_raster.itemsize
WindowBytes == rr_window.height * RowBytes
ChunkListBytes == Len(VStack(rr_chunks)) * RowBytes
HeldBytes == ChunkListBytes + Len(rr_result) * RowBytes

\* C11 as stated: at every moment of a call the sample data held in buffers
\* is at most the budget plus one chunk (chunk_height rows of window width).
C11_HeldWithinBudgetPlusChunk ==
    HeldBytes <= ExpBudget + ExpChunk * RowBytes

\* C11 amended: the chunks read so far are all kept, up to the whole window,
\* and while they are stacked the window is held twice (the list and the
\* result); the data held never exceeds twice the window, and after the
\* return it is the window once.
C11_HeldAtMostTwiceWindow ==
    /\ ChunkListBytes <= WindowBytes
    /\ HeldBytes <= 2 * WindowBytes
    /\ rr_pc \in {"call", "chunks"} => HeldBytes = SumHeights(rr_reads) * RowBytes
    /\ rr_pc = "stacked" => HeldBytes = 2 * WindowBytes
    /\ rr_pc = "returned" => HeldBytes = WindowBytes

\* C11 witness: four chunks of one row are stacked under a budget of zero:
\* the window is held twice, which is more than the budget plus one chunk.
C11_Witness ==
    /\ rr_pc = "stacked"
    /\ rr_window.height = 4 /\ rr_chunk_height = Some(1) /\ rr_max_size = Some(0)
    /\ Len(rr_chunks) = 4
    /\ HeldBytes = 2 * WindowBytes
    /\ HeldBytes > ExpBudget + ExpChunk * RowBytes

\* the call went through the chunk loop (row_start has advanced) or is in it
ReadInChunks == rr_pc \in {"chunks", "stacked"} \/ (rr_pc = "returned" /\ rr_row_start > 0)
ReadInOneShot == rr_pc = "returned" /\ rr_row_start = 0

\* C12 as stated: for every sample type of the raster, the window is read in
\* one shot exactly when width x height x bytes-per-sample of the raster
\* being read is at most the budget, and in chunks otherwise.
C12_DecisionUsesRasterSampleSize ==
    rr_pc # "call" =>
        /\ ReadInOneShot <=> WindowBytes <= ExpBudget
        /\ ReadInChunks <=> WindowBytes > ExpBudget

\* ------------------------------------------------------------------------
\* Properties of Context (specification SpecCtx)
\* ------------------------------------------------------------------------
\* the request was ctx.component.field on a component whose sub-mapping is a dict
ComponentRequest ==
    /\ Len(ctx_req) = 2
    /\ ctx_req[1] \in DOMAIN ctx_extra
    /\ ctx_extra[ctx_req[1]].kind = "dict"
SubMapping == ctx_extra[ctx_req[1]].d

\* C13 as stated: a field requested for a component resolves to the value in
\* the component's sub-mapping of extra when present there, and otherwise
\* falls through to the configuration field of the same name, without error
\* when the field exists only in the configuration.
C13_ComponentFieldFallsThroughToCfg ==
    ComponentRequest =>
        IF ctx_req[2] \in DOMAIN SubMapping
        THEN ctx_res = Res("value", SubMapping[ctx_req[2]], EmptyMap)
        ELSE ctx_req[2] \in CfgFields =>
                ctx_res = Res("value", ctx_cfg[ctx_req[2]], EmptyMap)

\* C13 amended: a name requested on the Context resolves to the entry of
\* extra of that name (the component's sub-mapping, also when the
\* configuration has a field of that name) and otherwise falls through to
\* the configuration field, AttributeError when there is none; a field
\* requested on a component resolves in the component's sub-mapping only,
\* and raises KeyError when absent there, whatever the configuration holds.
C13_FallThroughOnlyAtTopLevel ==
    /\ ComponentRequest =>
          IF ctx_req[2] \in DOMAIN SubMapping
          THEN ctx_res = Res("value", SubMapping[ctx_req[2]], EmptyMap)
          ELSE ctx_res = Res("KeyError", "", EmptyMap)
    /\ Len(ctx_req) = 1 =>
          IF ctx_req[1] \in DOMAIN ctx_extra
          THEN /\ ctx_res.kind \in {"NS", "raw"}
               /\ ctx_res.kind = "NS" <=> ctx_extra[ctx_req[1]].kind = "dict"
               /\ ctx_res.d = ctx_extra[ctx_req[1]].d
          ELSE IF ctx_req[1] \in CfgFields
               THEN ctx_res = Res("value", ctx_cfg[ctx_req[1]], EmptyMap)
               ELSE ctx_res = Res("AttributeError", "", EmptyMap)

\* C13 witness: the field nodata is asked of component filt, whose
\* sub-mapping has only thr: KeyError, although the configuration has nodata.
C13_Witness ==
    /\ ctx_pc = "ready"
    /\ ctx_req = <<"filt", "nodata">>
    /\ "filt" \in DOMAIN ctx_extra
    /\ ctx_extra["filt"].kind = "dict"
    /\ DOMAIN ctx_extra["filt"].d = {"thr"}
    /\ "nodata" \in DOMAIN ctx_cfg
    /\ ctx_res.kind = "KeyError"

\* C14: construction raises TypeError and yields no Context exactly when some
\* top-level value of extra is not a mapping; when every top-level value is a
\* mapping the Context is built and holds cfg and extra.
C14_NonMappingExtraRejected ==
    ctx_pc \in {"ready", "TypeError"} =>
        IF \E key \in DOMAIN ctx_extra : ctx_extra[key].kind = "scalar"
        THEN ctx_pc = "TypeError" /\ ctx_obj = None
        ELSE ctx_pc = "ready" /\ ctx_obj = Some([cfg |-> ctx_cfg, extra |-> ctx_extra])

\* C14 witness: extra has a dict for filt and a scalar under the reserved
\* key patch; construction has raised.
C14_Witness ==
    /\ ctx_pc = "TypeError"
    /\ DOMAIN ctx_extra = {"patch", "filt"}
    /\ ctx_extra["patch"].kind = "scalar"
    /\ ctx_extra["filt"].kind = "dict"
    /\ ctx_obj = None

\* ------------------------------------------------------------------------
\* Properties of the fraction functions (specification SpecFrac)
\* ------------------------------------------------------------------------
Fn == fr_args.fn
IsThreshold == Fn \in {"filters.calculate_threshold_fraction",
                       "masks.calculate_threshold_fraction"}
\* the comparison of a threshold call: filters.py compares strictly, masks.py
\* as strict says (inclusive when strict is not passed)
Strictly == IF Fn = "filters.calculate_threshold_fraction" THEN TRUE
            ELSE fr_args.strict = Some(TRUE)
Satisfies(c) ==
    CASE fr_args.greater /\ Strictly -> CellGt(c, fr_args.threshold)
      [] fr_args.greater /\ ~Strictly -> CellGe(c, fr_args.threshold)
      [] ~fr_args.greater /\ Strictly -> CellLt(c, fr_args.threshold)
      [] OTHER -> CellLe(c, fr_args.threshold)

\* positions of the valid pixels of the call, as each function defines them,
\* and of the valid pixels that satisfy its predicate
Cells2D == (1..fr_args.patch_size) \X (1..fr_args.patch_size)
ValidPositions ==
    CASE Fn = "fraction_from_mask" ->
            {n \in 1..Len(fr_args.valid_pixels) : fr_args.valid_pixels[n]}
      [] IsThreshold ->
            {n \in 1..Len(fr_args.data) :
                fr_args.nodata = None \/ CellNe(fr_args.data[n], fr_args.nodata[1])}
      [] Fn = "patch_value_fraction" ->
            {n \in 1..Len(fr_args.patch) :
                IF fr_args.valid_pixels # None THEN fr_args.valid_pixels[1][n]
                ELSE fr_args.nodata = None \/ CellNe(fr_args.patch[n], fr_args.nodata[1])}
      [] Fn = "get_binary_mask_fraction" ->
            {rc \in Cells2D :
                IF fr_args.valid_pixels # None THEN fr_args.valid_pixels[1][rc[1]][rc[2]]
                ELSE CellNe(fr_args.patch[1][rc[1]][rc[2]], fr_args.nodata)}
MaskAt(rc) ==
    LET r == fr_args.i + rc[1]
        c == fr_args.j + rc[2]
        bm == fr_args.binary_mask[1]
    IN IF r <= Len(bm) /\ c <= Len(bm[1]) THEN bm[r][c] ELSE fr_args.background_value
HitPositions ==
    CASE Fn = "fraction_from_mask" ->
            {n \in ValidPositions : fr_args.binary_mask[n] = fr_args.target_value}
      [] IsThreshold -> {n \in ValidPositions : Satisfies(fr_args.data[n])}
      [] Fn = "patch_value_fraction" ->
            {n \in ValidPositions : CellEq(fr_args.patch[n], fr_args.filter_value)}
      [] Fn = "get_binary_mask_fraction" ->
            {rc \in ValidPositions : MaskAt(rc) = fr_args.target_value}
\* the call gives the function a way to tell the valid pixels
ValidityGiven ==
    Fn = "get_binary_mask_fraction" => (fr_args.valid_pixels # None \/ fr_args.patch # None)
MaskGiven == Fn = "get_binary_mask_fraction" => fr_args.binary_mask # None

\* C16 as stated: every fraction function returns exactly 0.0 when the number
\* of valid pixels is zero, and otherwise the number of valid pixels
\* satisfying the predicate divided by the number of valid pixels.
C16_ZeroValidGivesZero ==
    (fr_pc = "returned" /\ ValidityGiven) =>
        IF ValidPositions = {}
        THEN fr_res = Float(0, 1)
        ELSE MaskGiven =>
                fr_res = Float(Cardinality(HitPositions), Cardinality(ValidPositions))

\* C16 amended: the same, except that get_binary_mask_fraction called without
\* a binary mask returns default_fraction whatever the valid pixels are.
C16_ZeroValidGivesZeroUnlessMaskAbsent ==
    (fr_pc = "returned" /\ ValidityGiven) =>
        IF ~MaskGiven
        THEN fr_res = fr_args.default_fraction
        ELSE IF ValidPositions = {}
             THEN fr_res = Float(0, 1)
             ELSE fr_res = Float(Cardinality(HitPositions), Cardinality(ValidPositions))

\* C16 witness: patch_value_fraction of a two-pixel patch whose pixels are
\* both nodata has returned 0.0.
C16_Witness ==
    /\ fr_pc = "returned"
    /\ Fn = "patch_value_fraction"
    /\ fr_args.patch = <<Num(0), Num(0)>> /\ fr_args.nodata = Some(0)
    /\ fr_args.valid_pixels = None
    /\ fr_res = Float(0, 1)

\* the valid pixels of a threshold call as C17 defines them, and the valid
\* pixels on the selected side of filter_value
FiniteValid ==
    {n \in 1..Len(fr_args.data) :
        /\ IsFinite(fr_args.data[n])
        /\ fr_args.nodata = None \/ CellNe(fr_args.data[n], fr_args.nodata[1])}
Selected(c) ==
    CASE fr_args.greater /\ fr_args.strict = Some(TRUE) -> CellGt(c, fr_args.threshold)
      [] fr_args.greater /\ fr_args.strict = Some(FALSE) -> CellGe(c, fr_args.threshold)
      [] ~fr_args.greater /\ fr_args.strict = Some(TRUE) -> CellLt(c, fr_args.threshold)
      [] OTHER -> CellLe(c, fr_args.threshold)

\* C17 as stated: in every variant of calculate_threshold_fraction the caller
\* selects the comparison with (greater, strict), and the function returns
\* the share of the valid pixels (finite and not nodata) with
\* data > filter_value, >=, < or <= accordingly.
C17_ThresholdTieBreakSelectable ==
    (IsThreshold /\ fr_pc # "call" /\ fr_args.strict # None) =>
        /\ fr_pc = "returned"
        /\ fr_res = IF FiniteValid = {} THEN Float(0, 1)
                    ELSE Float(Cardinality({n \in FiniteValid : Selected(fr_args.data[n])}),
                               Cardinality(FiniteValid))

\* C18 as stated: get_binary_mask_fraction called with neither a validity
\* array nor a reference patch raises, for every value of the other arguments.
C18_NeitherGivenAlwaysRaises ==
    (Fn = "get_binary_mask_fraction" /\ fr_pc # "call"
        /\ fr_args.valid_pixels = None /\ fr_args.patch = None) =>
        fr_pc = "ValueError"

\* C18 amended: with a binary mask given, the call raises ValueError exactly
\* when neither a validity array nor a reference patch is given; without a
\* binary mask it returns default_fraction and never raises.
C18_NeitherGivenRaisesWhenMaskGiven ==
    (Fn = "get_binary_mask_fraction" /\ fr_pc # "call") =>
        IF fr_args.binary_mask = None
        THEN fr_pc = "returned" /\ fr_res = fr_args.default_fraction
        ELSE fr_pc = "ValueError" <=>
                (fr_args.valid_pixels = None /\ fr_args.patch = None)

\* C18 witness: a call with a binary mask and neither validity array nor
\* patch has raised ValueError.
C18_Witness ==
    /\ fr_pc = "ValueError"
    /\ Fn = "get_binary_mask_fraction"
    /\ fr_args.binary_mask # None
    /\ fr_args.valid_pixels = None /\ fr_args.patch = None
    /\ fr_args.i = 1 /\ fr_args.patch_size = 2

\* ------------------------------------------------------------------------
\* Properties of the SAR normalizations (specification SpecSar)
\* ------------------------------------------------------------------------
\* a sample is invalid when it is nodata, non-positive, or not above the
\* epsilon floor after scaling
InvalidSample(x) ==
    \/ sar_args.nodata # None /\ x = sar_args.nodata[1]
    \/ x <= 0
    \/ ~AboveEps(x, sar_args.scale_exp)
ValidDecibels ==
    {sar_log10(sar_args.img[n], sar_args.scale_exp) :
        n \in {m \in 1..Len(sar_args.img) : ~InvalidSample(sar_args.img[m])}}

\* C19 as stated: after either normalization every invalid sample is 0 in the
\* output, the output has the input's shape, an input without valid samples
\* gives all zeros, and the percentiles of sar_up_contrast_convert_to_uint8_p
\* are those of the valid samples' decibel values only.
C19_InvalidSamplesMapToZero ==
    sar_pc = "returned" =>
        /\ Len(sar_out) = Len(sar_args.img)
        /\ \A n \in 1..Len(sar_args.img) :
              InvalidSample(sar_args.img[n]) => sar_out[n] = 0
        /\ (sar_args.fn = "sar_up_contrast_convert_to_uint8_p" /\ ValidDecibels # {}) =>
              sar_clip = <<Percentile(ValidDecibels, sar_args.low),
                           Percentile(ValidDecibels, sar_args.high)>>

\* ------------------------------------------------------------------------
\* Properties of gen_capella_tile_patches (specification SpecCap)
\* ------------------------------------------------------------------------
\* the run has set its per-raster parameters (line 111 is behind it)
HasSetLandMask(r) == cap_pc[r] \in {"set_scale_factor", "set_low_percentile_val", "KeyError"}
HasCopied(r) == cap_pc[r] \notin {"start", "copy"}
LandMaskSeenBy(r) ==
    cap_heap[cap_extra_ctx[r]["min_land_fraction_filter_random"]].land_mask

\* C15 as stated: two runs share no mutable state: the parameter dicts one
\* run writes are not those of the other, and the land mask a run finds in
\* its context is always the one of its own raster, under every interleaving.
C15_RunsShareNoMutableState ==
    \A r1 \in Runs :
        /\ HasSetLandMask(r1) => LandMaskSeenBy(r1) = cap_in[r1].land_mask
        /\ \A r2 \in Runs \ {r1} :
              (HasCopied(r1) /\ HasCopied(r2)) =>
                  \A c \in DOMAIN CAPELLA_EXTRA_CTX :
                      cap_extra_ctx[r1][c] # cap_extra_ctx[r2][c]

\* the run is over
Ended(r) == cap_pc[r] \in {"KeyError", "returned"}

\* C20 as stated: the clip values of a run are computed once from the
\* overview and are the ones its windows' transform reads from the context:
\* a run that is over has stored its pair under the transform's component
\* and returned from cut_patches.
C20_RunPairReachesTransform ==
    \A r \in Runs :
        Ended(r) =>
            /\ cap_pc[r] = "returned"
            /\ cap_pair[r] = Some(cap_in[r].overview_pair)
            /\ "sar_up_contrast_convert_uint8_pval_ctx" \in DOMAIN cap_extra_ctx[r]

\* ------------------------------------------------------------------------
\* Properties of datasets/ghsl.py (specification SpecGhsl)
\* ------------------------------------------------------------------------
\* The counts written over the whole reprojected grid, independent of the
\* block loop.
GhPixels == (1..gh_in.height) \X (1..gh_in.width)
GhValue(p) == gh_in.reprojected[p[1]][p[2]]
GhValid(p) == gh_in.nodata = None \/ GhValue(p) # gh_in.nodata[1]
GhHit(p) == GhValid(p) /\ GhValue(p) > FilterValueOf(gh_in.filter_value)
GhValidCount == Cardinality({p \in GhPixels : GhValid(p)})
GhHitCount == Cardinality({p \in GhPixels : GhHit(p)})
InUnit(f) == f.kind = "float" /\ f.den > 0 /\ 0 <= f.num /\ f.num <= f.den
SameFraction(f, g) ==
    f.kind = "float" /\ g.kind = "float" /\ f.num * g.den = g.num * f.den
\* pixel p (1-based row, column) lies in window w (0-based offsets)
InWindow(p, w) ==
    /\ w.row_off < p[1] /\ p[1] <= w.row_off + w.height
    /\ w.col_off < p[2] /\ p[2] <= w.col_off + w.width
WindowsDone == gh_pc = "returned"

\* C21: detect_buildings_chunked returns the number of valid reprojected
\* pixels strictly above the threshold divided by the number of valid
\* reprojected pixels (valid: different from the GHSL nodata value, every
\* pixel when no nodata is defined), both accumulated over all blocks; it
\* returns 0.0 when no pixel is valid and never divides by zero.
C21_ChunkedFractionIsHitsOverValid ==
    /\ gh_pc \in {"windows", "returned"} =>
          /\ gh_total = Cardinality({p \in GhPixels :
                  GhValid(p) /\ \E n \in 1..Len(gh_wins) : InWindow(p, gh_wins[n])})
          /\ gh_hits = Cardinality({p \in GhPixels :
                  GhHit(p) /\ \E n \in 1..Len(gh_wins) : InWindow(p, gh_wins[n])})
    /\ gh_pc = "returned" =>
          /\ gh_res.kind = "float"
          /\ gh_res.den # 0
          /\ gh_res = IF GhValidCount = 0 THEN Float(0, 1)
                      ELSE Float(GhHitCount, GhValidCount)

\* C21 witness: a 2x2 grid with a nodata pixel, read in four blocks of one
\* pixel, of whose three valid pixels one is above the threshold.
C21_Witness ==
    /\ gh_pc = "returned"
    /\ Len(gh_wins) = 4
    /\ gh_in.nodata # None
    /\ gh_res = Float(1, 3)

\* C22 as stated: for every block size the chunked function returns the same
\* fraction as detect_buildings returns on the whole reprojected array.
C22_ChunkedEqualsNonChunked ==
    gh_pc = "returned" => SameFraction(gh_ref, gh_res)

\* C23 as stated: the fraction returned by detect_buildings, and the one
\* returned by detect_buildings_chunked, is a number between 0.0 and 1.0.
C23_FractionsInUnitInterval ==
    /\ gh_pc # "detect_buildings" => InUnit(gh_ref)
    /\ gh_pc = "returned" => InUnit(gh_res)

\* C27: the windows of iter_windows partition the grid: they come in
\* row-major order, each is non-empty and at most block x block, a window
\* narrower (lower) than block ends at the right (bottom) edge, every pixel
\* lies in exactly one of them, and without nodata the per-block valid
\* counts of detect_buildings_chunked add up to width * height.
C27_IterWindowsPartitionGrid ==
    /\ \A n \in 1..Len(gh_wins) :
          LET w == gh_wins[n]
          IN /\ 1 <= w.width /\ w.width <= gh_in.block
             /\ 1 <= w.height /\ w.height <= gh_in.block
             /\ w.width < gh_in.block => w.col_off + w.width = gh_in.width
             /\ w.height < gh_in.block => w.row_off + w.height = gh_in.height
             /\ w.col_off + w.width <= gh_in.width
             /\ w.row_off + w.height <= gh_in.height
             /\ \A m \in 1..(n - 1) :
                   \/ gh_wins[m].row_off < w.row_off
                   \/ /\ gh_wins[m].row_off = w.row_off
                      /\ gh_wins[m].col_off < w.col_off
    /\ \A p \in GhPixels :
          Cardinality({n \in 1..Len(gh_wins) : InWindow(p, gh_wins[n])}) <= 1
    /\ WindowsDone =>
          /\ \A p \in GhPixels :
                Cardinality({n \in 1..Len(gh_wins) : InWindow(p, gh_wins[n])}) = 1
          /\ gh_in.nodata = None => gh_total = gh_in.width * gh_in.height

\* C27 witness: a 2x3 grid cut with block 2 into a full block and a narrower
\* one at the right edge.
C27_Witness ==
    /\ WindowsDone
    /\ gh_in.width = 3 /\ gh_in.height = 2 /\ gh_in.block = 2
    /\ gh_in.nodata = None
    /\ gh_wins = <<Window(0, 0, 2, 2), Window(2, 0, 1, 2)>>
    /\ gh_total = 6

\* ------------------------------------------------------------------------
\* Properties of the batch run (specification SpecBatch)
\* ------------------------------------------------------------------------
\* The building fraction of a raster counted directly on its reprojected
\* grid: pixels above the threshold among the valid pixels.
SarPixels(sar) == (1..Len(sar.reprojected)) \X (1..Len(sar.reprojected[1]))
SarValidCount(sar) ==
    Cardinality({p \in SarPixels(sar) :
        sar.nodata = None \/ sar.reprojected[p[1]][p[2]] # sar.nodata[1]})
SarHitCount(sar) ==
    Cardinality({p \in SarPixels(sar) :
        /\ sar.nodata = None \/ sar.reprojected[p[1]][p[2]] # sar.nodata[1]
        /\ sar.reprojected[p[1]][p[2]] > GHSL_BUILDINGS_THRESHOLD})
PassesGate(sar) ==
    /\ sar.res < CAPELLA_RES_THRESHOLD_CM
    /\ SarHitCount(sar) * 100 >= GHSL_MIN_BUILDING_COVG_PCT * SarValidCount(sar)
    /\ SarValidCount(sar) > 0
Extracted(o) == \E n \in 1..Len(o.events) : o.events[n] = "process_capella_sar_tile"
PosIn(q, e) == CHOOSE n \in 1..Len(q) : q[n] = e

\* C24 as stated: a raster that cannot be opened does not abort process_sar:
\* the failure stays inside that raster's iteration, every sibling raster is
\* still visited and the run ends normally.
C24_IoFailureDoesNotAbortRun ==
    /\ bp_pc # "IOError"
    /\ \A n \in 1..Len(bp_log) :
          bp_log[n].kind = "IOError" => bp_pc \in {"loop", "done"}

\* C25 as stated: for every raster that was opened, the building fraction is
\* computed before any extraction; extraction runs and a metadata table is
\* written only if the resolution passes and the fraction is at least
\* GHSL_MIN_BUILDING_COVG; otherwise the call extracts nothing, writes no
\* table and returns 0.
C25_DensityGatesExtraction ==
    \A n \in 1..Len(bp_log) :
        LET o == bp_log[n]
            sar == bp_in[n]
        IN sar.opens =>
              /\ Extracted(o) =>
                    /\ PassesGate(sar)
                    /\ PosIn(o.events, "detect_buildings")
                          < PosIn(o.events, "process_capella_sar_tile")
              /\ o.files # {} => PassesGate(sar)
              /\ ~PassesGate(sar) =>
                    /\ o.kind = "returned"
                    /\ o.num_patches = 0
                    /\ ~Extracted(o)
                    /\ o.files = {}

\* ------------------------------------------------------------------------
\* Further properties of cut_patches (specification Spec)
\* ------------------------------------------------------------------------
RasterPixels == (1..ds.height) \X (1..ds.width)
WindowsOver(p) == {n \in 1..Len(visited) : InWindow(p, visited[n])}

\* C26 as stated: called without a metadata_fn (and with a writer), cut_patches
\* does not fail: every window that reached the writer has a default record
\* (patch name, centre) and the call returns those records.
C26_DefaultMetadataWhenOmitted ==
    (metadata_fn = "None" /\ writer_fn = "fn") =>
        /\ pc # "raised"
        /\ pc \in {"loop", "done"} =>
              /\ Len(metadata) = Len(written)
              /\ \A n \in 1..Len(metadata) :
                    /\ "patch_name" \in DOMAIN metadata[n]
                    /\ "geometry" \in DOMAIN metadata[n]
        /\ pc = "done" => returned = <<metadata>>

\* C28: every visited window is non-empty and lies inside the raster; when
\* the loop has run to its end with 1 <= step <= patch_size every pixel lies
\* in at least one visited window, and with step = patch_size in exactly one.
C28_WindowsCoverRasterInsideBounds ==
    /\ \A n \in 1..Len(visited) :
          LET w == visited[n]
          IN /\ w.height >= 1 /\ w.width >= 1
             /\ w.row_off >= 0 /\ w.col_off >= 0
             /\ w.row_off + w.height <= ds.height
             /\ w.col_off + w.width <= ds.width
    /\ (pc = "done" /\ 1 <= ExpStep /\ ExpStep <= cfg.patch_size) =>
          \A p \in RasterPixels : Cardinality(WindowsOver(p)) >= 1
    /\ (pc = "done" /\ ExpStep = cfg.patch_size) =>
          \A p \in RasterPixels : Cardinality(WindowsOver(p)) = 1

\* C28 witness: a 2x2 raster cut with patch_size 2 and step 1: four windows,
\* the first covering the whole raster, the last only its bottom-right pixel.
C28_Witness ==
    /\ pc = "done"
    /\ ds.height = 2 /\ ds.width = 2
    /\ cfg.patch_size = 2 /\ ExpStep = 1
    /\ Len(visited) = 4
    /\ visited[1] = Window(0, 0, 2, 2)
    /\ visited[4] = Window(1, 1, 1, 1)
    /\ Cardinality(WindowsOver(<<2, 2>>)) = 4

\* ------------------------------------------------------------------------
\* Properties of cut_patches with save_capella_patch (specification SpecSave)
\* ------------------------------------------------------------------------
\* a patch name is <<img_name, "_patch_", i, "_", j, extension>>
NameWindow(name) == <<name[3], name[5]>>
WindowFinished == sv_pc \in {"loop", "done"}

\* C29: a failed save does not leave the writer (it returns 0 and no file
\* appears); cut_patches drops the return value, so every window that reached
\* the writer is counted as kept and has its metadata record, in order,
\* whether or not its file was written, and the records are returned.
C29_FailedSaveStillRecorded ==
    /\ sv_pc # "raised"
    /\ \A n \in 1..Len(sv_writes) :
          /\ sv_writes[n].kind = "returned"
          /\ sv_writes[n].ret = (IF sv_writes[n].saved THEN 1 ELSE 0)
          /\ ~sv_writes[n].saved => sv_writes[n].out_path \notin sv_files
    /\ WindowFinished =>
          /\ sv_kept = Len(sv_writes)
          /\ Len(sv_metadata) = Len(sv_writes)
          /\ \A n \in 1..Len(sv_writes) :
                NameWindow(sv_metadata[n].patch_name) = NameWindow(sv_writes[n].patch_name)
    /\ sv_pc = "done" => sv_returned = <<sv_metadata>>

\* C29 witness: a run returned two records; the file of the first was
\* written, the save of the second failed and its file does not exist.
C29_Witness ==
    /\ sv_pc = "done"
    /\ Len(sv_returned[1]) = 2
    /\ sv_writes[1].saved /\ sv_writes[1].out_path \in sv_files
    /\ ~sv_writes[2].saved /\ sv_writes[2].ret = 0
    /\ sv_writes[2].out_path \notin sv_files
    /\ sv_kept = 2

\* C30 as stated: the patch_name of every kept window's metadata record is the
\* name of the file save_capella_patch wrote for it, and distinct windows have
\* distinct names and output paths.
C30_RecordNamesWrittenFile ==
    /\ \A n \in 1..Len(sv_metadata) :
          sv_metadata[n].patch_name = sv_writes[n].patch_name
    /\ \A n, m \in 1..Len(sv_writes) :
          n # m => /\ sv_writes[n].patch_name # sv_writes[m].patch_name
                   /\ sv_writes[n].out_path # sv_writes[m].out_path
    /\ \A n, m \in 1..Len(sv_metadata) :
          n # m => sv_metadata[n].patch_name # sv_metadata[m].patch_name

====
